---------------------------- MODULE Spec2Model ----------------------------
(***************************************************************************)
(* A model of the Opus compiler front end (boyanfan/opus-source):          *)
(*   - the lexer     src/opus-compiler/opus-lexer/src/lexer.c              *)
(*   - the parser    src/opus-compiler/opus-parser/src/parser.c            *)
(*   - the analyzer  src/opus-compiler/opus-analyzer/src/analyzer.c        *)
(* Source text is a string; the byte at offset i is SubSeq(text, i, i).    *)
(***************************************************************************)
EXTENDS Integers, Sequences, FiniteSets, TLC

VARIABLES
    sourceCode,   \* the text of the .opus file being compiled (FILE *sourceCode)
    lexer,        \* the Lexer struct plus the read offset of the FILE
    tokens,       \* the tokens getNextToken has returned so far, in order
    history,      \* the lexer state before each of those calls
    parserState,  \* the Parser struct of the parser driver (Parser *parser)
    astRoot,      \* the ASTNode *root the parser driver gets from parseProgram
    analyzerState,  \* the Analyzer struct with its symbol table
    analysis      \* the annotated AST and the result analyzeProgram returns

vars ==
    <<sourceCode, lexer, tokens, history, parserState, astRoot, analyzerState,
      analysis>>

-----------------------------------------------------------------------------
(* Bounds of the model.                                                    *)

MaxSourceLength == 4     \* the longest source text the lexer is run on
MaxOperators == 3        \* the most binary operators in a parsed expression
MaxStatements == 3       \* the most statements in a parsed program
MaxReadsPastEnd == 4     \* the most reads of the source file at its end
MaxNesting == 1          \* the deepest nesting of blocks in an analyzed program
MaxArithmetic == 2       \* the most operators in an analyzed arithmetic expression
MaxSymbols == 4          \* the most symbols added to a symbol table on its own
MaxNamespace == 3        \* the deepest namespace entered in a symbol table on its own

-----------------------------------------------------------------------------
(* Characters (token.h) and <ctype.h> classes.                             *)

EOF == "EOF"        \* what fgetc returns at the end of the file (never a byte)
EOFByte == "^"      \* (char) EOF, the byte 0xFF; no source text contains it

Digits == {"0", "1", "2", "3", "4", "5", "6", "7", "8", "9"}
Letters ==
    {"a", "b", "c", "d", "e", "f", "g", "h", "i", "j", "k", "l", "m",
     "n", "o", "p", "q", "r", "s", "t", "u", "v", "w", "x", "y", "z",
     "A", "B", "C", "D", "E", "F", "G", "H", "I", "J", "K", "L", "M",
     "N", "O", "P", "Q", "R", "S", "T", "U", "V", "W", "X", "Y", "Z"}

isdigit(character) == character \in Digits
isalpha(character) == character \in Letters
isalnum(character) == isalpha(character) \/ isdigit(character)

ARITHMETIC_OPERATORS == {"+", "-", "*", "/", "%", "!", "="}
COMPARISON_OPERATORS == {"<", ">", "=", "!"}
LOGICAL_OPERATORS == {"&", "|"}
CLOSING_CLOSURES == {"]", ")", "}"}
NATIVE_OPERATORS ==
    {"+", "-", "*", "/", "%", "!", "@", "#", "$", "&", "?", "~", "=", ".", ":", ">"}

LEXEME_LENGTH == 128

AsByte(character) == IF character = EOF THEN EOFByte ELSE character

-----------------------------------------------------------------------------
(* The source reader.                                                      *)

CharAt(text, offset) ==
    IF offset <= Len(text) THEN SubSeq(text, offset, offset) ELSE EOF

peekNextCharacter(lx, text) == CharAt(text, lx.offset)

consumeNextCharacter(lx, text) ==
    LET character == CharAt(text, lx.offset)
        moved == IF character = EOF THEN lx.offset ELSE lx.offset + 1
    IN  [ch |-> character,
         lx |-> IF character # "\n"
                THEN [lx EXCEPT !.offset = moved,
                                !.location.column = lx.location.column + 1]
                ELSE [lx EXCEPT !.offset = moved,
                                !.location.line = lx.location.line + 1,
                                !.location.column = 1]]

isWhitespace(character) == character \in {" ", "\t", "\f", "\r"}

\* C evaluates a call's argument before the call: Rest(value), with value
\* computed first.
Then(value, Rest(_)) == CHOOSE result \in {Rest(first) : first \in {value}} : TRUE

\* The lexer after `count` calls of consumeNextCharacter, the calls split in
\* halves to keep the evaluation shallow.
RECURSIVE consumeCharacters(_, _, _)
consumeCharacters(lx, text, count) ==
    IF count = 0 THEN lx
    ELSE IF count = 1 THEN consumeNextCharacter(lx, text).lx
    ELSE Then(consumeCharacters(lx, text, count \div 2),
              LAMBDA half : consumeCharacters(half, text, count - (count \div 2)))

\* The number of turns of a loop that reads the bytes from an offset on, one
\* a turn, goes on while Continues holds of the byte and makes `most` turns
\* at most.
loopLength(text, offset, most, Continues(_)) ==
    CHOOSE count \in 0 .. most :
        /\ \A turn \in 0 .. count - 1 : Continues(CharAt(text, offset + turn))
        /\ count = most \/ ~Continues(CharAt(text, offset + count))

\* The bytes such a loop of `count` turns reads.
bytesRead(text, offset, count) == SubSeq(text, offset, offset + count - 1)

\* The indexes of the closure vector int isInClosure[3].
BRACKET_CLOSURE == 0
CURLY_BRACKET_CLOSURE == 1
SQUARE_BRACKET_CLOSURE == 2

isInClosure_curlyCounts(lx) ==
    lx.isInClosure[BRACKET_CLOSURE] # 0 \/ lx.isInClosure[CURLY_BRACKET_CLOSURE] # 0
        \/ lx.isInClosure[SQUARE_BRACKET_CLOSURE] # 0

isInClosure(lx) ==
    lx.isInClosure[BRACKET_CLOSURE] # 0 \/ lx.isInClosure[SQUARE_BRACKET_CLOSURE] # 0

RECURSIVE locateStartOfNextLineLoop(_, _, _)
locateStartOfNextLineLoop(lx, character, text) ==
    IF character # "\n" /\ character # EOF
    THEN LET c == consumeNextCharacter(lx, text)
         IN  locateStartOfNextLineLoop(c.lx, c.ch, text)
    ELSE lx

locateStartOfNextLine(lx, text) ==
    locateStartOfNextLineLoop(lx, peekNextCharacter(lx, text), text)

RECURSIVE skipWhitespaces(_, _, _)
skipWhitespaces(lx, character, text) ==
    IF (isWhitespace(character) \/ (isInClosure(lx) /\ character = "\n"))
       /\ character # EOF
    THEN LET c == consumeNextCharacter(lx, text)
         IN  skipWhitespaces(c.lx, c.ch, text)
    ELSE [lx |-> lx, ch |-> character]

RECURSIVE locateStartOfNextToken(_, _)
locateStartOfNextToken(lx, text) ==
    LET first == consumeNextCharacter(lx, text)
        found == skipWhitespaces(first.lx, first.ch, text)
    IN  IF found.ch = "/" /\ peekNextCharacter(found.lx, text) = "/"
        THEN locateStartOfNextToken(locateStartOfNextLine(found.lx, text), text)
        ELSE found

-----------------------------------------------------------------------------
(* Tokens.  The lexeme is copied from the buffer of getNextToken into the  *)
(* buffer of the token, each of LEXEME_LENGTH bytes, and ended by a NUL at *)
(* the index that is its length: a lexeme of LEXEME_LENGTH bytes or more   *)
(* is written past the end of both, which `crashed` records.               *)

overruns(lexeme) == Len(lexeme) >= LEXEME_LENGTH

initSafeToken(tokenType, lx, lexeme) ==
    [lx |-> [lx EXCEPT !.previousTokenType = tokenType,
                       !.crashed = lx.crashed \/ overruns(lexeme)],
     token |-> [tokenType |-> tokenType,
                tokenError |-> "ERROR_TOKEN_NONE",
                lexeme |-> lexeme,
                location |-> [line |-> lx.location.line,
                              column |-> lx.location.column - Len(lexeme) + 1]]]

initUnsafeToken(tokenError, lx, lexeme) ==
    [lx |-> [lx EXCEPT !.previousTokenType = "TOKEN_ERROR",
                       !.crashed = lx.crashed \/ overruns(lexeme)],
     token |-> [tokenType |-> "TOKEN_ERROR",
                tokenError |-> tokenError,
                lexeme |-> lexeme,
                location |-> [line |-> lx.location.line,
                              column |-> IF tokenError = "ERROR_UNTERMINATED_STRING"
                                         THEN lx.location.column - 1
                                         ELSE lx.location.column - Len(lexeme) + 1]]]

skipCurrenToken(lx, text, lexeme, skippedSequence) ==
    LET count == loopLength(text, lx.offset, Len(text),
                            LAMBDA character : character \in skippedSequence)
    IN  [lx |-> consumeCharacters(lx, text, count),
         lexeme |-> lexeme \o bytesRead(text, lx.offset, count)]

\* The closing of every operator branch of getNextToken: a further operator
\* character makes the run an undefined operator, otherwise the token is safe.
operatorOrUndefined(tokenType, lx, text, lexeme) ==
    IF peekNextCharacter(lx, text) \in NATIVE_OPERATORS
    THEN LET skipped == skipCurrenToken(lx, text, lexeme, NATIVE_OPERATORS)
         IN  initUnsafeToken("ERROR_UNDEFINED_OPERATOR", skipped.lx, skipped.lexeme)
    ELSE initSafeToken(tokenType, lx, lexeme)

\* The same for `&&` and `||`, which may be followed by `!`.
logicalOrUndefined(tokenType, lx, text, lexeme) ==
    LET nextCharacter == peekNextCharacter(lx, text)
    IN  IF nextCharacter \in NATIVE_OPERATORS /\ nextCharacter # "!"
        THEN LET skipped == skipCurrenToken(lx, text, lexeme, NATIVE_OPERATORS)
             IN  initUnsafeToken("ERROR_UNDEFINED_OPERATOR", skipped.lx, skipped.lexeme)
        ELSE initSafeToken(tokenType, lx, lexeme)

\* A two-character operator: the second character is consumed and appended.
twoCharacterOperator(tokenType, lx, text, lexeme) ==
    LET c == consumeNextCharacter(lx, text)
    IN  operatorOrUndefined(tokenType, c.lx, text, lexeme \o c.ch)

numericTerminator(character) ==
    \/ isWhitespace(character) \/ character = "\n" \/ character = EOF
    \/ character \in ARITHMETIC_OPERATORS \/ character \in COMPARISON_OPERATORS
    \/ character \in CLOSING_CLOSURES \/ character = ","
    \/ character \in LOGICAL_OPERATORS

\* The first loop of parseNumeric; `decimal` is the length of the lexeme.
collectDigits(lx, text, lexeme, floatingPosition) ==
    LET count == loopLength(text, lx.offset, LEXEME_LENGTH - Len(lexeme),
                            LAMBDA character : isdigit(character) \/ character = ".")
    IN  [lx |-> consumeCharacters(lx, text, count),
         lexeme |-> lexeme \o bytesRead(text, lx.offset, count),
         floatingPosition |->
             floatingPosition
             + Cardinality({turn \in 0 .. count - 1 :
                               CharAt(text, lx.offset + turn) = "."})]

\* The second loop of parseNumeric.
collectInvalid(lx, text, lexeme) ==
    LET count == loopLength(text, lx.offset, LEXEME_LENGTH - Len(lexeme),
                            LAMBDA character : ~numericTerminator(character))
    IN  [lx |-> consumeCharacters(lx, text, count),
         lexeme |-> lexeme \o bytesRead(text, lx.offset, count)]

parseNumeric(lx, text, lexeme) ==
    LET digits == collectDigits(lx, text, lexeme, 0)
        invalid == collectInvalid(digits.lx, text, digits.lexeme)
    IN  IF digits.floatingPosition > 1
        THEN initUnsafeToken("ERROR_MALFORMED_NUMERIC", digits.lx, digits.lexeme)
        ELSE IF numericTerminator(peekNextCharacter(digits.lx, text))
        THEN initSafeToken("TOKEN_NUMERIC", digits.lx, digits.lexeme)
        ELSE IF Len(invalid.lexeme) = LEXEME_LENGTH - 1
        THEN initUnsafeToken("ERROR_OVERFLOW", invalid.lx, invalid.lexeme)
        ELSE initUnsafeToken("ERROR_MALFORMED_NUMERIC", invalid.lx, invalid.lexeme)

\* The loop that copies the content of a string literal (position counts the
\* bytes written so far, content is lexeme[0 .. position - 1]).  `character`
\* is the byte read last, the one in front of the read offset; a backslash is
\* stored as every other byte is.
collectString(lx, text, character, content) ==
    LET count == IF character = EOF THEN 0
                 ELSE loopLength(text, lx.offset - 1, LEXEME_LENGTH - Len(content),
                                 LAMBDA byte : byte # "\"" /\ byte # EOF)
    IN  [lx |-> consumeCharacters(lx, text, count),
         ch |-> IF count = 0 THEN character
                ELSE CharAt(text, lx.offset - 1 + count),
         content |-> content \o bytesRead(text, lx.offset - 1, count)]

collectIdentifier(lx, text, lexeme) ==
    LET count == loopLength(text, lx.offset, Len(text),
                            LAMBDA character : isalnum(character) \/ character = "_")
    IN  [lx |-> consumeCharacters(lx, text, count),
         lexeme |-> lexeme \o bytesRead(text, lx.offset, count)]

keywordOrIdentifier(lexeme) ==
    CASE lexeme = "var" -> "TOKEN_KEYWORD_VAR"
      [] lexeme = "let" -> "TOKEN_KEYWORD_LET"
      [] lexeme = "if" -> "TOKEN_KEYWORD_IF"
      [] lexeme = "else" -> "TOKEN_KEYWORD_ELSE"
      [] lexeme = "repeat" -> "TOKEN_KEYWORD_REPEAT"
      [] lexeme = "until" -> "TOKEN_KEYWORD_UNTIL"
      [] lexeme = "for" -> "TOKEN_KEYWORD_FOR"
      [] lexeme = "in" -> "TOKEN_KEYWORD_IN"
      [] lexeme = "return" -> "TOKEN_KEYWORD_RETURN"
      [] lexeme = "class" -> "TOKEN_KEYWORD_CLASS"
      [] lexeme = "struct" -> "TOKEN_KEYWORD_STRUCT"
      [] lexeme = "func" -> "TOKEN_KEYWORD_FUNC"
      [] lexeme = "true" -> "TOKEN_KEYWORD_TRUE"
      [] lexeme = "false" -> "TOKEN_KEYWORD_FALSE"
      [] OTHER -> "TOKEN_IDENTIFIER"

reportLexerError(lx) ==
    LET one == IF lx.isInClosure[BRACKET_CLOSURE] # 0
               THEN "ERROR_UNCLOSED_BRACKET" ELSE lx.lexerError
        two == IF lx.isInClosure[CURLY_BRACKET_CLOSURE] # 0
               THEN "ERROR_UNCLOSED_CURLY_BRACKET" ELSE one
        three == IF lx.isInClosure[SQUARE_BRACKET_CLOSURE] # 0
                 THEN "ERROR_UNCLOSED_SQUARE_BRACKET" ELSE two
    IN  [lx EXCEPT !.lexerError = three]

enterClosure(lx, closure) ==
    [lx EXCEPT !.isInClosure[closure] = lx.isInClosure[closure] + 1]

leaveClosure(lx, closure) ==
    [lx EXCEPT !.isInClosure[closure] = lx.isInClosure[closure] - 1]

\* The `!` branch of getNextToken (lexer.c 141-170).
exclamationMark_factorialAfterNumericOnly(lx, text, lexeme) ==
    IF lx.previousTokenType = "TOKEN_NUMERIC"
    THEN initSafeToken("TOKEN_ARITHMETIC_FACTORIAL", lx, lexeme)
    ELSE IF peekNextCharacter(lx, text) = "="
    THEN twoCharacterOperator("TOKEN_NOT_EQUAL_TO_OPERATOR", lx, text, lexeme)
    ELSE operatorOrUndefined("TOKEN_LOGICAL_NEGATION", lx, text, lexeme)

exclamationMark(lx, text, lexeme) ==
    IF lx.previousTokenType = "TOKEN_NUMERIC" \/ lx.previousTokenType = "TOKEN_IDENTIFIER"
    THEN initSafeToken("TOKEN_ARITHMETIC_FACTORIAL", lx, lexeme)
    ELSE IF peekNextCharacter(lx, text) = "="
    THEN twoCharacterOperator("TOKEN_NOT_EQUAL_TO_OPERATOR", lx, text, lexeme)
    ELSE operatorOrUndefined("TOKEN_LOGICAL_NEGATION", lx, text, lexeme)

\* The `"` branch of getNextToken (lexer.c 314-333).
stringLiteral(lx, text, lexeme) ==
    LET opening == consumeNextCharacter(lx, text)
        body == collectString(opening.lx, text, opening.ch, "")
    IN  IF body.ch = EOF
        THEN initUnsafeToken("ERROR_UNTERMINATED_STRING", body.lx,
                             IF body.content = "" THEN lexeme ELSE body.content)
        ELSE initSafeToken("TOKEN_STRING_LITERAL", body.lx, body.content)

\* The identifier and keyword branch of getNextToken (lexer.c 341-371).
identifierOrKeyword(lx, text, lexeme) ==
    LET collected == collectIdentifier(lx, text, lexeme)
    IN  initSafeToken(keywordOrIdentifier(collected.lexeme), collected.lx,
                      collected.lexeme)

\* getNextToken once the first character of the token is read.
scanToken(start, text) ==
    LET lx == start.lx
        character == start.ch
        lexeme == AsByte(start.ch)
        nextCharacter == peekNextCharacter(start.lx, text)
    IN  IF character = EOF
        THEN initSafeToken("TOKEN_EOF", reportLexerError(lx), lexeme)
        ELSE IF character = "\n" /\ ~isInClosure(lx)
        THEN initSafeToken("TOKEN_DELIMITER", lx, lexeme)
        ELSE IF isdigit(character) THEN parseNumeric(lx, text, lexeme)
        ELSE IF character = "+"
        THEN operatorOrUndefined("TOKEN_ARITHMETIC_ADDITION", lx, text, lexeme)
        ELSE IF character = "-"
        THEN IF nextCharacter = ">"
             THEN twoCharacterOperator("TOKEN_RIGHT_ARROW", lx, text, lexeme)
             ELSE IF isdigit(nextCharacter) THEN parseNumeric(lx, text, lexeme)
             ELSE operatorOrUndefined("TOKEN_ARITHMETIC_SUBTRACTION", lx, text, lexeme)
        ELSE IF character = "*"
        THEN operatorOrUndefined("TOKEN_ARITHMETIC_MULTIPLICATION", lx, text, lexeme)
        ELSE IF character = "/"
        THEN operatorOrUndefined("TOKEN_ARITHMETIC_DIVISION", lx, text, lexeme)
        ELSE IF character = "%"
        THEN operatorOrUndefined("TOKEN_ARITHMETIC_MODULO", lx, text, lexeme)
        ELSE IF character = "="
        THEN IF nextCharacter = "="
             THEN twoCharacterOperator("TOKEN_LOGICAL_EQUIVALENCE", lx, text, lexeme)
             ELSE operatorOrUndefined("TOKEN_ASSIGNMENT_OPERATOR", lx, text, lexeme)
        ELSE IF character = "!" THEN exclamationMark(lx, text, lexeme)
        ELSE IF character = "<"
        THEN IF nextCharacter = "="
             THEN twoCharacterOperator("TOKEN_LESS_OR_EQUAL_TO_OPERATOR", lx, text, lexeme)
             ELSE operatorOrUndefined("TOKEN_LESS_THAN_OPERATOR", lx, text, lexeme)
        ELSE IF character = ">"
        THEN IF nextCharacter = "="
             THEN twoCharacterOperator("TOKEN_GREATER_OR_EQUAL_TO_OPERATOR", lx, text, lexeme)
             ELSE operatorOrUndefined("TOKEN_GREATER_THAN_OPERATOR", lx, text, lexeme)
        ELSE IF character = "," THEN initSafeToken("TOKEN_COMMA", lx, lexeme)
        ELSE IF character = ":"
        THEN operatorOrUndefined("TOKEN_COLON", lx, text, lexeme)
        ELSE IF character = "("
        THEN initSafeToken("TOKEN_OPENING_BRACKET",
                           enterClosure(lx, BRACKET_CLOSURE), lexeme)
        ELSE IF character = ")"
        THEN initSafeToken("TOKEN_CLOSING_BRACKET",
                           leaveClosure(lx, BRACKET_CLOSURE), lexeme)
        ELSE IF character = "{"
        THEN initSafeToken("TOKEN_OPENING_CURLY_BRACKET",
                           enterClosure(lx, CURLY_BRACKET_CLOSURE), lexeme)
        ELSE IF character = "}"
        THEN initSafeToken("TOKEN_CLOSING_CURLY_BRACKET",
                           leaveClosure(lx, CURLY_BRACKET_CLOSURE), lexeme)
        ELSE IF character = "["
        THEN initSafeToken("TOKEN_OPENING_SQUARE_BRACKET",
                           enterClosure(lx, SQUARE_BRACKET_CLOSURE), lexeme)
        ELSE IF character = "]"
        THEN initSafeToken("TOKEN_CLOSING_SQUARE_BRACKET",
                           leaveClosure(lx, SQUARE_BRACKET_CLOSURE), lexeme)
        ELSE IF character = "&" /\ nextCharacter = "&"
        THEN LET c == consumeNextCharacter(lx, text)
             IN  logicalOrUndefined("TOKEN_LOGICAL_AND_OPERATOR", c.lx, text,
                                    lexeme \o c.ch)
        ELSE IF character = "|" /\ nextCharacter = "|"
        THEN LET c == consumeNextCharacter(lx, text)
             IN  logicalOrUndefined("TOKEN_LOGICAL_OR_OPERATOR", c.lx, text,
                                    lexeme \o c.ch)
        ELSE IF character = "\"" THEN stringLiteral(lx, text, lexeme)
        ELSE IF character = "_" /\ ~isalpha(nextCharacter) /\ nextCharacter # "_"
        THEN initUnsafeToken("ERROR_ORPHAN_UNDERSCORE", lx, lexeme)
        ELSE IF isalpha(character) \/ character = "_"
        THEN identifierOrKeyword(lx, text, lexeme)
        ELSE initUnsafeToken("ERROR_UNRECOGNIZABLE", lx, lexeme)

getNextToken(lexerBefore, text) ==
    scanToken(locateStartOfNextToken(lexerBefore, text), text)

initLexer ==
    [lexerError |-> "ERROR_LEXER_NONE",
     location |-> [line |-> 1, column |-> 1],
     previousTokenType |-> "TOKEN_ERROR",
     isInClosure |-> [index \in 0 .. 2 |-> 0],
     offset |-> 1,
     crashed |-> FALSE]

-----------------------------------------------------------------------------
(* The parser (parser.c). A parse function takes the Parser and the source *)
(* file and yields the Parser after the call and the ASTNode it returns.   *)
(* The file is read through getNextToken only, so a parse function is      *)
(* handed the file as that reader: what getNextToken returns on it, for    *)
(* each state the Lexer can be in.                                         *)

\* The states of the Lexer before each of its first `calls` calls on a text
\* and after the last of them, which is `last`.  The calls are split in
\* halves to keep the evaluation shallow.
RECURSIVE lexerStates(_, _, _)

lexerStatesJoin(first, second) ==
    [states |-> first.states \cup second.states, last |-> second.last]

lexerStatesRest(first, text, calls) ==
    lexerStatesJoin(first, lexerStates(first.last, text, calls))

lexerStates(lx, text, calls) ==
    IF calls = 0 THEN [states |-> {lx}, last |-> lx]
    ELSE IF calls = 1
    THEN Then(getNextToken(lx, text).lx,
              LAMBDA next : [states |-> {lx, next}, last |-> next])
    ELSE lexerStatesRest(lexerStates(lx, text, calls \div 2), text,
                         calls - (calls \div 2))

\* FILE *sourceCode as the parser reads it: the token and the lexer state
\* that each getNextToken call returns, tabulated once per text (@@ <<>>)
\* so that the parser looks tokens up rather than running the lexer.
SourceFile(text) ==
    [lx \in lexerStates(initLexer, text, Len(text) + 1 + MaxReadsPastEnd).states
         |-> getNextToken(lx, text)] @@ <<>>

\* A member of a nodeValue or symbolValue: Indeterminate until something is
\* stored in it, because malloc does not clear it.
Indeterminate == [defined |-> FALSE]
Stored(value) == [defined |-> TRUE, value |-> value]

NoValue ==
    [integerValue |-> Indeterminate, floatingValue |-> Indeterminate,
     booleanValue |-> Indeterminate, stringLiteral |-> Indeterminate]

NULL == [nodeType |-> "NULL"]          \* the NULL ASTNode pointer
NULL_TOKEN == [tokenType |-> "NULL"]   \* the NULL Token pointer

initASTNode(nodeType, token) ==
    [nodeType |-> nodeType, token |-> token, left |-> NULL, right |-> NULL,
     inferredType |-> "Any", isFoldable |-> 1, nodeValue |-> NoValue]

\* diagnostics is what reportParseError has printed; crashed records that it
\* was handed a NULL diagnosticToken, which it dereferences; unchecked holds
\* the tokens consumed as closing brackets without a look at them.
initParser ==
    [parseError |-> "PARSE_ERROR_NONE", lexer |-> initLexer,
     currentToken |-> NULL_TOKEN, diagnosticToken |-> NULL_TOKEN,
     diagnostics |-> <<>>, crashed |-> FALSE, unchecked |-> <<>>]

matchTokenType(parser, type) == parser.currentToken.tokenType = type

receiveToken(parser, result) ==
    [parser EXCEPT !.lexer = result.lx, !.currentToken = result.token]

\* parser->currentToken = advanceParser(parser, sourceCode)
advanceParser(parser, file) == receiveToken(parser, file[parser.lexer])

RECURSIVE escapeParseError(_, _)
escapeParseError(parser, file) ==
    IF ~matchTokenType(parser, "TOKEN_DELIMITER") /\ ~matchTokenType(parser, "TOKEN_EOF")
    THEN escapeParseError(advanceParser(parser, file), file)
    ELSE parser

isExpression(parser) ==
    parser.currentToken.tokenType \in
        {"TOKEN_IDENTIFIER", "TOKEN_NUMERIC", "TOKEN_STRING_LITERAL",
         "TOKEN_ARITHMETIC_SUBTRACTION", "TOKEN_LOGICAL_NEGATION",
         "TOKEN_OPENING_BRACKET", "TOKEN_KEYWORD_TRUE", "TOKEN_KEYWORD_FALSE"}

reportParseError(parser) ==
    IF parser.diagnosticToken = NULL_TOKEN
    THEN [parser EXCEPT !.crashed = TRUE]
    ELSE [parser EXCEPT !.diagnostics =
              Append(parser.diagnostics,
                     [parseError |-> parser.parseError,
                      location |-> parser.diagnosticToken.location,
                      lexeme |-> parser.diagnosticToken.lexeme])]

\* The error exit every production shares: set the error and its token,
\* report, synchronise on the next Delimiter or EOF, return an Error node.
parseFailure(parser, file, parseError, diagnosticToken) ==
    [parser |-> escapeParseError(
                    reportParseError([parser EXCEPT !.parseError = parseError,
                                                    !.diagnosticToken = diagnosticToken]),
                    file),
     node |-> initASTNode("AST_ERROR", NULL_TOKEN)]

binaryNode(operator, left, right) ==
    [initASTNode("AST_BINARY_EXPRESSION", operator) EXCEPT !.left = left, !.right = right]

\* One turn of a binary production's loop (591-598 and its siblings): the
\* current token of `root` is the operator, `right` is the operand parsed
\* after it, and the new root holds the old one on its left.
appendOperand(root, right) ==
    [parser |-> right.parser,
     node |-> binaryNode(root.parser.currentToken, root.node, right.node)]

\* Brackets are consumed without being checked (parser.c 757-761); closing
\* is the token type the comment there takes the current token to have.
consumeClosing(result, file, closing) ==
    [parser |-> advanceParser(
                    [result.parser EXCEPT !.unchecked =
                         Append(@, [closing |-> closing,
                                    token |-> result.parser.currentToken])],
                    file),
     node |-> result.node]

RECURSIVE parseExpression(_, _), parseLogicalOr(_, _), parseLogicalOrLoop(_, _),
          parseLogicalAnd(_, _), parseLogicalAndLoop(_, _),
          parseComparison(_, _), parseComparisonLoop(_, _),
          parseAddition(_, _), parseAdditionLoop(_, _),
          parseAdditionLoop_rightAssociative(_, _),
          parseMultiplication(_, _), parseMultiplicationLoop(_, _),
          parsePrefix(_, _), parsePostfix(_, _), parsePostfixLoop(_, _),
          parsePrimary(_, _), parseFunctionCall(_, _, _), parseArgumentList(_, _),
          parseAssignmentStatement(_, _, _)

parseExpression(parser, file) == parseLogicalOr(parser, file)

parseLogicalOrLoop(root, file) ==
    IF matchTokenType(root.parser, "TOKEN_LOGICAL_OR_OPERATOR")
    THEN parseLogicalOrLoop(
             appendOperand(root, parseLogicalAnd(advanceParser(root.parser, file), file)),
             file)
    ELSE root

parseLogicalOr(parser, file) ==
    Then(parseLogicalAnd(parser, file), LAMBDA root : parseLogicalOrLoop(root, file))

parseLogicalAndLoop(root, file) ==
    IF matchTokenType(root.parser, "TOKEN_LOGICAL_AND_OPERATOR")
    THEN parseLogicalAndLoop(
             appendOperand(root, parseComparison(advanceParser(root.parser, file), file)),
             file)
    ELSE root

parseLogicalAnd(parser, file) ==
    Then(parseComparison(parser, file), LAMBDA root : parseLogicalAndLoop(root, file))

parseComparisonLoop(root, file) ==
    IF root.parser.currentToken.tokenType \in
           {"TOKEN_LESS_THAN_OPERATOR", "TOKEN_GREATER_THAN_OPERATOR",
            "TOKEN_LESS_OR_EQUAL_TO_OPERATOR", "TOKEN_GREATER_OR_EQUAL_TO_OPERATOR",
            "TOKEN_LOGICAL_EQUIVALENCE", "TOKEN_NOT_EQUAL_TO_OPERATOR"}
    THEN parseComparisonLoop(
             appendOperand(root, parseAddition(advanceParser(root.parser, file), file)),
             file)
    ELSE root

parseComparison(parser, file) ==
    Then(parseAddition(parser, file), LAMBDA root : parseComparisonLoop(root, file))

parseAdditionLoop_rightAssociative(root, file) ==
    IF matchTokenType(root.parser, "TOKEN_ARITHMETIC_ADDITION")
       \/ matchTokenType(root.parser, "TOKEN_ARITHMETIC_SUBTRACTION")
    THEN appendOperand(root, parseAddition(advanceParser(root.parser, file), file))
    ELSE root

parseAdditionLoop(root, file) ==
    IF matchTokenType(root.parser, "TOKEN_ARITHMETIC_ADDITION")
       \/ matchTokenType(root.parser, "TOKEN_ARITHMETIC_SUBTRACTION")
    THEN parseAdditionLoop(
             appendOperand(root, parseMultiplication(advanceParser(root.parser, file), file)),
             file)
    ELSE root

parseAddition(parser, file) ==
    Then(parseMultiplication(parser, file), LAMBDA root : parseAdditionLoop(root, file))

parseMultiplicationLoop(root, file) ==
    IF root.parser.currentToken.tokenType \in
           {"TOKEN_ARITHMETIC_MULTIPLICATION", "TOKEN_ARITHMETIC_DIVISION",
            "TOKEN_ARITHMETIC_MODULO"}
    THEN parseMultiplicationLoop(
             appendOperand(root, parsePrefix(advanceParser(root.parser, file), file)),
             file)
    ELSE root

parseMultiplication(parser, file) ==
    Then(parsePrefix(parser, file), LAMBDA root : parseMultiplicationLoop(root, file))

unaryNode(operator, operand) ==
    [parser |-> operand.parser,
     node |-> [initASTNode("AST_UNARY_EXPRESSION", operator)
                   EXCEPT !.left = operand.node]]

parsePrefix(parser, file) ==
    IF matchTokenType(parser, "TOKEN_LOGICAL_NEGATION")
       \/ matchTokenType(parser, "TOKEN_ARITHMETIC_SUBTRACTION")
    THEN unaryNode(parser.currentToken, parsePrefix(advanceParser(parser, file), file))
    ELSE parsePostfix(parser, file)

parsePostfixLoop(root, file) ==
    IF matchTokenType(root.parser, "TOKEN_OPENING_BRACKET")
    THEN parsePostfixLoop(parseFunctionCall(root.parser, file, root.node), file)
    ELSE IF matchTokenType(root.parser, "TOKEN_ARITHMETIC_FACTORIAL")
    THEN parsePostfixLoop(
             [parser |-> advanceParser(root.parser, file),
              node |-> [initASTNode("AST_POSTFIX_EXPRESSION", root.parser.currentToken)
                            EXCEPT !.left = root.node]],
             file)
    ELSE root

parsePostfix(parser, file) ==
    Then(parsePrimary(parser, file), LAMBDA root : parsePostfixLoop(root, file))

\* parsePrimary after it has consumed an identifier (parser.c 742-748).
parsePrimaryIdentifier(parser, file, root) ==
    IF matchTokenType(parser, "TOKEN_ASSIGNMENT_OPERATOR")
    THEN parseAssignmentStatement(parser, file, root)
    ELSE [parser |-> parser, node |-> root]

parsePrimary(parser, file) ==
    IF matchTokenType(parser, "TOKEN_NUMERIC") \/ matchTokenType(parser, "TOKEN_STRING_LITERAL")
    THEN [parser |-> advanceParser(parser, file),
          node |-> initASTNode("AST_LITERAL", parser.currentToken)]
    ELSE IF matchTokenType(parser, "TOKEN_IDENTIFIER")
    THEN parsePrimaryIdentifier(advanceParser(parser, file), file,
                                initASTNode("AST_IDENTIFIER", parser.currentToken))
    ELSE IF matchTokenType(parser, "TOKEN_OPENING_BRACKET")
    THEN consumeClosing(parseExpression(advanceParser(parser, file), file), file,
                        "TOKEN_CLOSING_BRACKET")
    ELSE IF matchTokenType(parser, "TOKEN_KEYWORD_TRUE")
            \/ matchTokenType(parser, "TOKEN_KEYWORD_FALSE")
    THEN [parser |-> advanceParser(parser, file),
          node |-> initASTNode("AST_BOOLEAN_LITERAL", parser.currentToken)]
    ELSE parseFailure(parser, file, "PARSE_ERROR_MISSING_OPERAND", parser.currentToken)

\* A node of a chain (argument list, parameter list, code block, program):
\* its left child is the element, its right child the rest of the chain.
listNode(nodeType, left, rest) ==
    [parser |-> rest.parser,
     node |-> [initASTNode(nodeType, NULL_TOKEN) EXCEPT !.left = left,
                                                        !.right = rest.node]]

\* parseFunctionCall once the arguments are parsed (parser.c 796-804).
functionCallNode(callee, arguments) ==
    [parser |-> arguments.parser,
     node |-> [initASTNode("AST_FUNCTION_CALL", callee.token)
                   EXCEPT !.left = callee, !.right = arguments.node]]

\* The arguments of a call, NULL when there are none (parser.c 789-794).
parseArguments(parser, file) ==
    IF ~matchTokenType(parser, "TOKEN_CLOSING_BRACKET")
    THEN parseArgumentList(parser, file)
    ELSE [parser |-> parser, node |-> NULL]

parseFunctionCall(parser, file, callee) ==
    functionCallNode(callee,
        consumeClosing(parseArguments(advanceParser(parser, file), file), file,
                       "TOKEN_CLOSING_BRACKET"))

\* parseArgumentList after the argument's expression (parser.c 847-858).
parseArgumentRest(argument, file, argumentLabelNode) ==
    listNode("AST_ARGUMENT_LIST",
             [initASTNode("AST_ARGUMENT", NULL_TOKEN)
                  EXCEPT !.left = argumentLabelNode, !.right = argument.node],
             IF matchTokenType(argument.parser, "TOKEN_COMMA")
             THEN parseArgumentList(advanceParser(argument.parser, file), file)
             ELSE [parser |-> argument.parser,
                   node |-> initASTNode("AST_ARGUMENT_LIST", NULL_TOKEN)])

\* parseArgumentList after the colon (parser.c 837-847).
parseArgumentValue(parser, file, argumentLabelNode) ==
    IF ~isExpression(parser)
    THEN parseFailure(parser, file, "PARSE_ERROR_MISSING_ARGUMENT", parser.currentToken)
    ELSE parseArgumentRest(parseExpression(parser, file), file, argumentLabelNode)

\* parseArgumentList after the label (parser.c 825-835).
parseArgumentColon(parser, file, argumentLabelNode) ==
    IF ~matchTokenType(parser, "TOKEN_COLON")
    THEN parseFailure(parser, file, "PARSE_ERROR_MISSING_COLON_AFTER_LABEL",
                      argumentLabelNode.token)
    ELSE parseArgumentValue(advanceParser(parser, file), file, argumentLabelNode)

parseArgumentList(parser, file) ==
    IF ~matchTokenType(parser, "TOKEN_IDENTIFIER")
    THEN parseFailure(parser, file, "PARSE_ERROR_MISSING_ARGUMENT_LABEL",
                      parser.currentToken)
    ELSE parseArgumentColon(advanceParser(parser, file), file,
                            initASTNode("AST_ARGUMENT_LABEL", parser.currentToken))

\* parseAssignmentStatement after the right value (parser.c 164-177).
parseAssignmentEnd(right, file, operator, leftValue) ==
    IF ~matchTokenType(right.parser, "TOKEN_DELIMITER")
    THEN parseFailure(right.parser, file, "PARSE_ERROR_MISSING_DELIMITER",
                      right.node.token)
    ELSE [parser |-> advanceParser(right.parser, file),
          node |-> [initASTNode("AST_ASSIGNMENT_STATEMENT", operator)
                        EXCEPT !.left = leftValue, !.right = right.node]]

parseAssignmentStatement(parser, file, leftValue) ==
    parseAssignmentEnd(parseExpression(advanceParser(parser, file), file), file,
                       parser.currentToken, leftValue)

RECURSIVE parseStatement(_, _), parseCodeBlock(_, _), parseCodeBlockLoop(_, _),
          parseConditionalStatement(_, _), parseParameterList(_, _),
          skipDelimiters(_, _), parseProgramLoop(_, _)

\* while (matchTokenType(parser, TOKEN_DELIMITER)) advance
skipDelimiters(parser, file) ==
    IF matchTokenType(parser, "TOKEN_DELIMITER")
    THEN skipDelimiters(advanceParser(parser, file), file)
    ELSE parser

\* parseDeclaration after the type annotation (parser.c 132-151).
parseDeclarationEnd(parser, file, root) ==
    IF matchTokenType(parser, "TOKEN_DELIMITER")
    THEN [parser |-> advanceParser(parser, file), node |-> root]
    ELSE IF matchTokenType(parser, "TOKEN_ASSIGNMENT_OPERATOR")
    THEN parseAssignmentStatement(parser, file, root)
    ELSE parseFailure(parser, file, "PARSE_ERROR_MISSING_DELIMITER", root.right.token)

\* parseDeclaration after the colon (parser.c 113-130).
parseDeclarationType(parser, file, root) ==
    IF ~matchTokenType(parser, "TOKEN_IDENTIFIER")
    THEN parseFailure(parser, file, "PARSE_ERROR_MISSING_TYPE_NAME", parser.currentToken)
    ELSE parseDeclarationEnd(
             advanceParser(parser, file), file,
             [root EXCEPT !.right = initASTNode("AST_TYPE_ANNOTATION",
                                                parser.currentToken)])

\* parseDeclaration after the identifier (parser.c 100-111).
parseDeclarationColon(parser, file, root) ==
    IF ~matchTokenType(parser, "TOKEN_COLON")
    THEN parseFailure(parser, file, "PARSE_ERROR_MISSING_TYPE_ANNOTATION",
                      root.left.token)
    ELSE parseDeclarationType(advanceParser(parser, file), file, root)

\* parseDeclaration after the keyword (parser.c 85-98).
parseDeclarationIdentifier(parser, file, root) ==
    IF ~matchTokenType(parser, "TOKEN_IDENTIFIER")
    THEN parseFailure(parser, file, "PARSE_ERROR_MISSING_IDENTIFIER", root.token)
    ELSE parseDeclarationColon(
             advanceParser(parser, file), file,
             [root EXCEPT !.left = initASTNode("AST_IDENTIFIER", parser.currentToken)])

parseDeclaration(parser, file) ==
    parseDeclarationIdentifier(
        advanceParser(parser, file), file,
        IF parser.currentToken.tokenType = "TOKEN_KEYWORD_VAR"
        THEN initASTNode("AST_VARIABLE_DECLARATION", parser.currentToken)
        ELSE initASTNode("AST_CONSTANT_DECLARATION", parser.currentToken))

\* parseParameterList after the type annotation (parser.c 315-325).
parseParameterRest(parser, file, parameterNode) ==
    listNode("AST_PARAMETER_LIST", parameterNode,
             IF matchTokenType(parser, "TOKEN_COMMA")
             THEN parseParameterList(advanceParser(parser, file), file)
             ELSE [parser |-> parser,
                   node |-> initASTNode("AST_PARAMETER_LIST", NULL_TOKEN)])

\* parseParameterList after the colon (parser.c 301-316).
parseParameterType(parser, file, parameterLabelNode) ==
    IF ~matchTokenType(parser, "TOKEN_IDENTIFIER")
    THEN parseFailure(parser, file, "PARSE_ERROR_MISSING_TYPE_NAME", parser.currentToken)
    ELSE parseParameterRest(
             advanceParser(parser, file), file,
             [initASTNode("AST_PARAMETER", NULL_TOKEN)
                  EXCEPT !.left = parameterLabelNode,
                         !.right = initASTNode("AST_TYPE_ANNOTATION",
                                               parser.currentToken)])

\* parseParameterList after the label (parser.c 289-299).
parseParameterColon(parser, file, parameterLabelNode) ==
    IF ~matchTokenType(parser, "TOKEN_COLON")
    THEN parseFailure(parser, file, "PARSE_ERROR_MISSING_COLON_AFTER_LABEL",
                      parameterLabelNode.token)
    ELSE parseParameterType(advanceParser(parser, file), file, parameterLabelNode)

parseParameterList(parser, file) ==
    IF ~matchTokenType(parser, "TOKEN_IDENTIFIER")
    THEN parseFailure(parser, file, "PARSE_ERROR_MISSING_PARAMETER_LABEL",
                      parser.currentToken)
    ELSE parseParameterColon(advanceParser(parser, file), file,
                             initASTNode("AST_PARAMETER_LABEL", parser.currentToken))

\* One statement of a block and the rest of the block (parser.c 343-345).
parseCodeBlockRest(statement, file) ==
    listNode("AST_CODE_BLOCK", statement.node,
             parseCodeBlockLoop(statement.parser, file))

\* The loop of parseCodeBlock; the block is returned as its chain of nodes.
parseCodeBlockLoop(parser, file) ==
    IF ~matchTokenType(parser, "TOKEN_CLOSING_CURLY_BRACKET")
       /\ ~matchTokenType(parser, "TOKEN_EOF")
    THEN IF matchTokenType(parser, "TOKEN_DELIMITER")
         THEN parseCodeBlockLoop(advanceParser(parser, file), file)
         ELSE Then(parseStatement(parser, file),
                   LAMBDA statement : parseCodeBlockRest(statement, file))
    ELSE [parser |-> parser, node |-> initASTNode("AST_CODE_BLOCK", NULL_TOKEN)]

parseCodeBlock(parser, file) ==
    Then(parseCodeBlockLoop(advanceParser(parser, file), file),
         LAMBDA block : consumeClosing(block, file, "TOKEN_CLOSING_CURLY_BRACKET"))

\* A statement node whose right child is the block parsed last.
withBody(root, body) ==
    [parser |-> body.parser, node |-> [root EXCEPT !.right = body.node]]

\* parseFunctionDefinition after the return type (parser.c 258-268).
parseFunctionBody(parser, file, functionDefinitionNode) ==
    IF matchTokenType(parser, "TOKEN_OPENING_CURLY_BRACKET")
    THEN withBody([initASTNode("AST_FUNCTION_IMPLEMENTATION", NULL_TOKEN)
                       EXCEPT !.left = functionDefinitionNode],
                  parseCodeBlock(parser, file))
    ELSE [parser |-> parser, node |-> functionDefinitionNode]

\* parseFunctionDefinition after the right arrow (parser.c 239-256).
parseFunctionReturnType(parser, file, functionDefinitionNode, parameterListNode) ==
    IF ~matchTokenType(parser, "TOKEN_IDENTIFIER")
    THEN parseFailure(parser, file, "PARSE_ERROR_MISSING_RETURN_TYPE",
                      parser.currentToken)
    ELSE parseFunctionBody(
             advanceParser(parser, file), file,
             [functionDefinitionNode
                  EXCEPT !.right =
                      [initASTNode("AST_FUNCTION_SIGNATURE", NULL_TOKEN)
                           EXCEPT !.left = parameterListNode,
                                  !.right = initASTNode("AST_FUNCTION_RETURN_TYPE",
                                                        parser.currentToken)]])

\* parseFunctionDefinition after the parameter list and the token consumed
\* behind it (parser.c 227-237).
parseFunctionArrow(parameters, file, functionDefinitionNode) ==
    IF ~matchTokenType(parameters.parser, "TOKEN_RIGHT_ARROW")
    THEN parseFailure(parameters.parser, file, "PARSE_ERROR_MISSING_RIGHT_ARROW",
                      parameters.parser.currentToken)
    ELSE parseFunctionReturnType(advanceParser(parameters.parser, file), file,
                                 functionDefinitionNode, parameters.node)

\* The parameters of a definition, an empty list when there are none
\* (parser.c 214-219).
parseParameters(parser, file) ==
    IF ~matchTokenType(parser, "TOKEN_CLOSING_BRACKET")
    THEN parseParameterList(parser, file)
    ELSE [parser |-> parser, node |-> initASTNode("AST_PARAMETER_LIST", NULL_TOKEN)]

\* parseFunctionDefinition after the function name (parser.c 201-225).
parseFunctionOpening(parser, file, functionDefinitionNode) ==
    IF ~matchTokenType(parser, "TOKEN_OPENING_BRACKET")
    THEN parseFailure(parser, file, "PARSE_ERROR_MISSING_OPENING_BRACKET",
                      functionDefinitionNode.left.token)
    ELSE parseFunctionArrow(
             consumeClosing(parseParameters(advanceParser(parser, file), file), file,
                            "TOKEN_CLOSING_BRACKET"),
             file, functionDefinitionNode)

\* parseFunctionDefinition after the keyword (parser.c 186-199).
parseFunctionName(parser, file, functionDefinitionNode) ==
    IF ~matchTokenType(parser, "TOKEN_IDENTIFIER")
    THEN parseFailure(parser, file, "PARSE_ERROR_MISSING_FUNCTION_NAME",
                      functionDefinitionNode.token)
    ELSE parseFunctionOpening(
             advanceParser(parser, file), file,
             [functionDefinitionNode
                  EXCEPT !.left = initASTNode("AST_IDENTIFIER", parser.currentToken)])

parseFunctionDefinition(parser, file) ==
    parseFunctionName(advanceParser(parser, file), file,
                      initASTNode("AST_FUNCTION_DEFINITION", parser.currentToken))

\* parseReturnStatement after the optional value (parser.c 368-380).
parseReturnEnd(value, file, keyword) ==
    IF ~matchTokenType(value.parser, "TOKEN_DELIMITER")
    THEN parseFailure(value.parser, file, "PARSE_ERROR_MISSING_DELIMITER",
                      value.node.token)
    ELSE [parser |-> advanceParser(value.parser, file),
          node |-> [initASTNode("AST_RETURN_STATEMENT", keyword)
                        EXCEPT !.left = value.node]]

\* The optional value of a return statement (parser.c 363-366).
parseReturnValue(parser, file) ==
    IF ~matchTokenType(parser, "TOKEN_DELIMITER")
    THEN parseExpression(parser, file)
    ELSE [parser |-> parser, node |-> NULL]

parseReturnStatement(parser, file) ==
    parseReturnEnd(parseReturnValue(advanceParser(parser, file), file), file,
                   parser.currentToken)

\* The conditional statement with its else branch (parser.c 433, 447).
withAlternative(conditionalStatementNode, alternative) ==
    [parser |-> alternative.parser,
     node |-> [conditionalStatementNode EXCEPT !.right.right = alternative.node]]

\* parseConditionalStatement after the else keyword (parser.c 431-448).
parseElse(parser, file, conditionalStatementNode) ==
    IF matchTokenType(parser, "TOKEN_KEYWORD_IF")
    THEN withAlternative(conditionalStatementNode,
                         parseConditionalStatement(parser, file))
    ELSE IF ~matchTokenType(parser, "TOKEN_OPENING_CURLY_BRACKET")
    THEN parseFailure(parser, file, "PARSE_ERROR_MISSING_OPENING_CURLY_BRACKET",
                      parser.currentToken)
    ELSE withAlternative(conditionalStatementNode, parseCodeBlock(parser, file))

\* parseConditionalStatement after the delimiters behind its block
\* (parser.c 426-451).
parseAlternative(parser, file, conditionalStatementNode) ==
    IF matchTokenType(parser, "TOKEN_KEYWORD_ELSE")
    THEN parseElse(advanceParser(parser, file), file, conditionalStatementNode)
    ELSE [parser |-> parser, node |-> conditionalStatementNode]

\* parseConditionalStatement after its block (parser.c 413-424).
parseConditionalEnd(codeBlock, file, conditionalStatementNode) ==
    parseAlternative(
        skipDelimiters(codeBlock.parser, file), file,
        [conditionalStatementNode
             EXCEPT !.right = [initASTNode("AST_CONDITIONAL_BODY", NULL_TOKEN)
                                   EXCEPT !.left = codeBlock.node]])

\* parseConditionalStatement after the condition (parser.c 402-419).
parseConditionalBody(condition, file, conditionalStatementNode) ==
    IF ~matchTokenType(condition.parser, "TOKEN_OPENING_CURLY_BRACKET")
    THEN parseFailure(condition.parser, file,
                      "PARSE_ERROR_MISSING_OPENING_CURLY_BRACKET",
                      condition.parser.currentToken)
    ELSE Then(parseCodeBlock(condition.parser, file),
              LAMBDA codeBlock :
                  parseConditionalEnd(
                      codeBlock, file,
                      [conditionalStatementNode EXCEPT !.left = condition.node]))

\* parseConditionalStatement after the keyword (parser.c 389-400).
parseCondition(parser, file, conditionalStatementNode) ==
    IF ~isExpression(parser)
    THEN parseFailure(parser, file, "PARSE_ERROR_MISSING_CONDITION",
                      conditionalStatementNode.token)
    ELSE Then(parseExpression(parser, file),
              LAMBDA condition : parseConditionalBody(condition, file,
                                                      conditionalStatementNode))

parseConditionalStatement(parser, file) ==
    parseCondition(advanceParser(parser, file), file,
                   initASTNode("AST_CONDITIONAL_STATEMENT", parser.currentToken))

\* parseRepeatUntilStatement after the condition (parser.c 499-513).
parseUntilEnd(condition, file, repeatUntilStatementNode) ==
    IF ~matchTokenType(condition.parser, "TOKEN_DELIMITER")
       /\ ~matchTokenType(condition.parser, "TOKEN_EOF")
    THEN parseFailure(condition.parser, file, "PARSE_ERROR_MISSING_DELIMITER",
                      condition.node.token)
    ELSE [parser |-> advanceParser(condition.parser, file),
          node |-> [repeatUntilStatementNode EXCEPT !.left = condition.node]]

\* parseRepeatUntilStatement after the until keyword (parser.c 490-499).
parseUntilCondition(parser, file, repeatUntilStatementNode) ==
    IF ~isExpression(parser)
    THEN parseFailure(parser, file, "PARSE_ERROR_MISSING_CONDITION",
                      parser.currentToken)
    ELSE parseUntilEnd(parseExpression(parser, file), file, repeatUntilStatementNode)

\* parseRepeatUntilStatement after the delimiters behind its block
\* (parser.c 477-488).
parseUntil(parser, file, repeatUntilStatementNode) ==
    IF ~matchTokenType(parser, "TOKEN_KEYWORD_UNTIL")
    THEN parseFailure(parser, file, "PARSE_ERROR_MISSING_UNTIL_CONDITION",
                      parser.currentToken)
    ELSE parseUntilCondition(advanceParser(parser, file), file,
                             repeatUntilStatementNode)

\* parseRepeatUntilStatement after its block (parser.c 470-475, 500).
parseRepeatEnd(statementBody, file, repeatUntilStatementNode) ==
    parseUntil(skipDelimiters(statementBody.parser, file), file,
               [repeatUntilStatementNode EXCEPT !.right = statementBody.node])

\* parseRepeatUntilStatement after the keyword (parser.c 460-470).
parseRepeatBody(parser, file, repeatUntilStatementNode) ==
    IF ~matchTokenType(parser, "TOKEN_OPENING_CURLY_BRACKET")
    THEN parseFailure(parser, file, "PARSE_ERROR_MISSING_OPENING_CURLY_BRACKET",
                      parser.currentToken)
    ELSE parseRepeatEnd(parseCodeBlock(parser, file), file, repeatUntilStatementNode)

parseRepeatUntilStatement(parser, file) ==
    parseRepeatBody(advanceParser(parser, file), file,
                    initASTNode("AST_REPEAT_UNTIL_STATEMENT", parser.currentToken))

\* parseForInStatement after the iterable (parser.c 559-577).
parseForBody(iterable, file, forInStatementNode, identifierNode) ==
    IF ~matchTokenType(iterable.parser, "TOKEN_OPENING_CURLY_BRACKET")
    THEN parseFailure(iterable.parser, file,
                      "PARSE_ERROR_MISSING_OPENING_CURLY_BRACKET",
                      iterable.node.token)
    ELSE withBody([forInStatementNode
                       EXCEPT !.left = [initASTNode("AST_FOR_IN_CONTEXT", NULL_TOKEN)
                                            EXCEPT !.left = identifierNode,
                                                   !.right = iterable.node]],
                  parseCodeBlock(iterable.parser, file))

\* parseForInStatement after the in keyword (parser.c 548-557).
parseForIterable(parser, file, forInStatementNode, identifierNode) ==
    IF ~isExpression(parser)
    THEN parseFailure(parser, file, "PARSE_ERROR_MISSING_IDENTIFIER",
                      parser.currentToken)
    ELSE parseForBody(parseExpression(parser, file), file, forInStatementNode,
                      identifierNode)

\* parseForInStatement after the loop variable (parser.c 535-546).
parseForIn(parser, file, forInStatementNode, identifierNode) ==
    IF ~matchTokenType(parser, "TOKEN_KEYWORD_IN")
    THEN parseFailure(parser, file, "PARSE_ERROR_MISSING_IN_STATEMENT",
                      identifierNode.token)
    ELSE parseForIterable(advanceParser(parser, file), file, forInStatementNode,
                          identifierNode)

\* parseForInStatement after the keyword (parser.c 522-533).
parseForIdentifier(parser, file, forInStatementNode) ==
    IF ~matchTokenType(parser, "TOKEN_IDENTIFIER")
    THEN parseFailure(parser, file, "PARSE_ERROR_MISSING_IDENTIFIER",
                      forInStatementNode.token)
    ELSE parseForIn(advanceParser(parser, file), file, forInStatementNode,
                    initASTNode("AST_IDENTIFIER", parser.currentToken))

parseForInStatement(parser, file) ==
    parseForIdentifier(advanceParser(parser, file), file,
                       initASTNode("AST_FOR_IN_STATEMENT", parser.currentToken))

parseStatement(parser, file) ==
    IF matchTokenType(parser, "TOKEN_KEYWORD_VAR")
       \/ matchTokenType(parser, "TOKEN_KEYWORD_LET")
    THEN parseDeclaration(parser, file)
    ELSE IF matchTokenType(parser, "TOKEN_KEYWORD_FUNC")
    THEN parseFunctionDefinition(parser, file)
    ELSE IF matchTokenType(parser, "TOKEN_KEYWORD_RETURN")
    THEN parseReturnStatement(parser, file)
    ELSE IF matchTokenType(parser, "TOKEN_KEYWORD_IF")
    THEN parseConditionalStatement(parser, file)
    ELSE IF matchTokenType(parser, "TOKEN_KEYWORD_REPEAT")
    THEN parseRepeatUntilStatement(parser, file)
    ELSE IF matchTokenType(parser, "TOKEN_KEYWORD_FOR")
    THEN parseForInStatement(parser, file)
    ELSE IF isExpression(parser) THEN parseExpression(parser, file)
    ELSE parseFailure(parser, file, "PARSE_ERROR_UNRESOLVABLE", parser.currentToken)

\* One statement of the program and the rest of the program (parser.c 22-33).
parseProgramRest(statement, file) ==
    listNode("AST_PROGRAM", statement.node, parseProgramLoop(statement.parser, file))

\* The loop of parseProgram; the program is returned as its chain of nodes.
parseProgramLoop(parser, file) ==
    IF ~matchTokenType(parser, "TOKEN_EOF")
    THEN IF matchTokenType(parser, "TOKEN_DELIMITER")
         THEN parseProgramLoop(advanceParser(parser, file), file)
         ELSE Then(parseStatement(parser, file),
                   LAMBDA statement : parseProgramRest(statement, file))
    ELSE [parser |-> parser, node |-> initASTNode("AST_PROGRAM", NULL_TOKEN)]

parseProgram(parser, file) == parseProgramLoop(parser, file)

-----------------------------------------------------------------------------
(* Numbers (analyzer.c 171, 178, 396-549).  An int has 32 bits; a result   *)
(* no int holds is undefined and is kept as Indeterminate.  A float is     *)
(* the exact ratio of two integers: the rounding of the machine type is    *)
(* left out.                                                               *)

\* INT_MAX and INT_MIN of a 32-bit int.
IntMax == 2147483647
IntMin == -IntMax - 1

Magnitude(value) == IF value < 0 THEN -value ELSE value

\* The quotient of INT_MIN; the divisor is neither 0 nor -1.
QuotientOfMin(divisor) ==
    IF divisor = IntMin THEN 1
    ELSE (IF divisor > 0 THEN -1 ELSE 1)
         * ((IntMax \div Magnitude(divisor))
            + (IF IntMax % Magnitude(divisor) = Magnitude(divisor) - 1 THEN 1 ELSE 0))

\* The quotient and the remainder of C: the quotient is cut towards zero.
Quotient_roundsDown(dividend, divisor) ==
    IF divisor > 0 THEN dividend \div divisor ELSE (-dividend) \div (-divisor)

Quotient(dividend, divisor) ==
    IF dividend = IntMin THEN QuotientOfMin(divisor)
    ELSE IF divisor = IntMin THEN 0
    ELSE IF (dividend < 0) = (divisor < 0)
    THEN Magnitude(dividend) \div Magnitude(divisor)
    ELSE -(Magnitude(dividend) \div Magnitude(divisor))

Remainder(dividend, divisor) == dividend - divisor * Quotient(dividend, divisor)

\* Whether the sum, the difference and the product of two ints are ints.
sumFits(lhs, rhs) ==
    IF rhs >= 0 THEN lhs <= IntMax - rhs ELSE lhs >= IntMin - rhs
differenceFits(lhs, rhs) ==
    IF rhs >= 0 THEN lhs >= IntMin + rhs ELSE lhs <= IntMax + rhs
productFits(lhs, rhs) ==
    \/ lhs \in {0, 1}
    \/ rhs \in {0, 1}
    \/ /\ lhs # IntMin
       /\ rhs # IntMin
       /\ \/ Magnitude(lhs) <= IntMax \div Magnitude(rhs)
          \/ /\ (lhs < 0) # (rhs < 0)
             /\ IntMin % Magnitude(rhs) = 0
             /\ QuotientOfMin(Magnitude(rhs)) = -Magnitude(lhs)

DigitValue(character) ==
    CASE character = "0" -> 0 [] character = "1" -> 1 [] character = "2" -> 2
      [] character = "3" -> 3 [] character = "4" -> 4 [] character = "5" -> 5
      [] character = "6" -> 6 [] character = "7" -> 7 [] character = "8" -> 8
      [] character = "9" -> 9

\* The digits of a lexeme from `index` on, read as strtol reads them: up to
\* the first byte that is no digit.  The result is <<value, digits read>>;
\* the value is -1 when the digits are more than an int holds.
RECURSIVE readDigits(_, _, _, _)
readDigits(lexeme, index, value, count) ==
    IF index <= Len(lexeme) /\ isdigit(SubSeq(lexeme, index, index))
    THEN IF value < 0
            \/ value > (IntMax - DigitValue(SubSeq(lexeme, index, index))) \div 10
         THEN readDigits(lexeme, index + 1, -1, count + 1)
         ELSE readDigits(lexeme, index + 1,
                         10 * value + DigitValue(SubSeq(lexeme, index, index)),
                         count + 1)
    ELSE <<value, count>>

hasSign(lexeme) == Len(lexeme) > 0 /\ SubSeq(lexeme, 1, 1) \in {"-", "+"}
isNegative(lexeme) == Len(lexeme) > 0 /\ SubSeq(lexeme, 1, 1) = "-"
firstDigit(lexeme) == IF hasSign(lexeme) THEN 2 ELSE 1

\* atoi of a lexeme whose digits `digits` are read; a number no int holds
\* is undefined.
atoiOf(lexeme, digits) ==
    IF digits[1] < 0 THEN Indeterminate
    ELSE IF isNegative(lexeme) THEN Stored(-digits[1])
    ELSE Stored(digits[1])

atoi(lexeme) == atoiOf(lexeme, readDigits(lexeme, firstDigit(lexeme), 0, 0))

RECURSIVE PowerOfTen(_)
PowerOfTen(exponent) == IF exponent = 0 THEN 1 ELSE 10 * PowerOfTen(exponent - 1)

Ratio(numerator, denominator) ==
    [numerator |-> numerator, denominator |-> denominator]

\* strchr(lexeme, '.') != NULL
hasPoint(lexeme) == \E index \in 1..Len(lexeme) : SubSeq(lexeme, index, index) = "."

\* atof once the digits before the point are read: `whole` is what
\* readDigits returned for them.
atofFraction(lexeme, whole, fraction) ==
    IF whole[1] < 0 \/ fraction[1] < 0 \/ whole[2] + fraction[2] > 9
    THEN Indeterminate
    ELSE Stored(Ratio((IF isNegative(lexeme) THEN -1 ELSE 1)
                          * (whole[1] * PowerOfTen(fraction[2]) + fraction[1]),
                      PowerOfTen(fraction[2])))

atofWhole(lexeme, whole) ==
    IF firstDigit(lexeme) + whole[2] <= Len(lexeme)
       /\ SubSeq(lexeme, firstDigit(lexeme) + whole[2],
                 firstDigit(lexeme) + whole[2]) = "."
    THEN atofFraction(lexeme, whole,
                      readDigits(lexeme, firstDigit(lexeme) + whole[2] + 1, 0, 0))
    ELSE atofFraction(lexeme, whole, <<0, 0>>)

atof(lexeme) == atofWhole(lexeme, readDigits(lexeme, firstDigit(lexeme), 0, 0))

\* (float) of an int
asFloat(value) == Ratio(value, 1)

floatSum(lhs, rhs) ==
    Ratio(lhs.numerator * rhs.denominator + rhs.numerator * lhs.denominator,
          lhs.denominator * rhs.denominator)
floatNegation(operand) == Ratio(-operand.numerator, operand.denominator)
floatProduct(lhs, rhs) ==
    Ratio(lhs.numerator * rhs.numerator, lhs.denominator * rhs.denominator)
\* A zero divisor gives a ratio of denominator 0: an infinity or a NaN.
floatQuotient(lhs, rhs) ==
    IF rhs.numerator < 0
    THEN Ratio(-lhs.numerator * rhs.denominator, -lhs.denominator * rhs.numerator)
    ELSE Ratio(lhs.numerator * rhs.denominator, lhs.denominator * rhs.numerator)
floatEqual(lhs, rhs) ==
    /\ lhs.denominator # 0
    /\ rhs.denominator # 0
    /\ lhs.numerator * rhs.denominator = rhs.numerator * lhs.denominator
floatLess(lhs, rhs) ==
    /\ lhs.denominator # 0
    /\ rhs.denominator # 0
    /\ lhs.numerator * rhs.denominator < rhs.numerator * lhs.denominator
\* fmodf: what is left of lhs after the multiples of rhs are taken from it.
floatRemainder(lhs, rhs) ==
    IF rhs.numerator = 0 \/ lhs.denominator = 0 \/ rhs.denominator = 0
    THEN Ratio(0, 0)
    ELSE Ratio(Remainder(lhs.numerator * rhs.denominator,
                         rhs.numerator * lhs.denominator),
               lhs.denominator * rhs.denominator)

-----------------------------------------------------------------------------
(* The symbol table (symbol.h, analyzer.c 607-706).  headSymbol is the     *)
(* linked list from its head on; a Symbol pointer into it is the position  *)
(* of the symbol, and 0 is the NULL pointer.  address tells the symbols    *)
(* the table has allocated apart: it is the number of the allocation.      *)

initSymbolTable == [currentNamespace |-> 0, headSymbol |-> <<>>, allocated |-> 0]

addSymbol(symbolTable, identifier, type, location) ==
    [symbolTable EXCEPT
         !.headSymbol =
             <<[identifier |-> identifier, type |-> type,
                namespace |-> symbolTable.currentNamespace,
                declarationLocation |-> location,
                hasInitialized |-> 0, isMutable |-> 0,
                symbolValue |-> NoValue,
                address |-> symbolTable.allocated + 1]>> \o @,
         !.allocated = @ + 1]

enterNamespace(symbolTable) == [symbolTable EXCEPT !.currentNamespace = @ + 1]

\* The positions a traversal of the list stops at for an identifier.
visibleSymbols(symbolTable, identifier) ==
    {position \in 1..Len(symbolTable.headSymbol) :
         /\ symbolTable.headSymbol[position].identifier = identifier
         /\ symbolTable.headSymbol[position].namespace <= symbolTable.currentNamespace}

firstOf(positions) ==
    IF positions = {} THEN 0
    ELSE CHOOSE first \in positions : \A other \in positions : first <= other

lookupSymbolFromCurrentNamespace(symbolTable, identifier) ==
    firstOf(visibleSymbols(symbolTable, identifier))

removeSymbolsFromCurrentNamespace_removesNone(symbolTable) == symbolTable

removeSymbolsFromCurrentNamespace(symbolTable) ==
    [symbolTable EXCEPT
         !.headSymbol =
             SelectSeq(@, LAMBDA symbol :
                              symbol.namespace # symbolTable.currentNamespace)]

leaveNamespace(symbolTable) ==
    [symbolTable EXCEPT !.currentNamespace = IF @ > 0 THEN @ - 1 ELSE @]

exitNamespace_leavesBeforeRemoving(symbolTable) ==
    removeSymbolsFromCurrentNamespace(leaveNamespace(symbolTable))

exitNamespace(symbolTable) ==
    leaveNamespace(removeSymbolsFromCurrentNamespace(symbolTable))

-----------------------------------------------------------------------------
(* The analyzer (analyzer.c).  Every analyze function returns the          *)
(* analyzer, the node as the analysis has annotated it, and its int        *)
(* result.  diagnostics is what reportAnalyzerError has printed.  trace    *)
(* is the record of the analysis: one entry for each declaration,          *)
(* assignment and identifier reference analyzed and for each namespace     *)
(* entered and left, with the symbol table as it was at that point.        *)
(* indeterminate is what a read of an Indeterminate value yields in this   *)
(* run.  An integer division by zero is undefined: divisionTraps tells     *)
(* whether it kills this run (as the idiv of x86 does) or yields an        *)
(* Indeterminate quotient (as the sdiv of ARM does).  crashed tells that   *)
(* the run has died; nothing is analyzed after that.                       *)

initAnalyzer(node, symbolTable) ==
    [symbolTable |-> symbolTable, analyzerError |-> "ANALYZER_ERROR_NONE",
     diagnostics |-> <<>>, trace |-> <<>>, indeterminate |-> 0,
     divisionTraps |-> TRUE, crashed |-> FALSE]

Analyzed(analyzer, node, result) ==
    [analyzer |-> analyzer, node |-> node, result |-> result]

reportAnalyzerError(analyzer, node) ==
    IF analyzer.analyzerError = "ANALYZER_ERROR_NONE"
    THEN [analyzer EXCEPT !.diagnostics =
              Append(@, [analyzerError |-> "ANALYZER_ERROR_NONE",
                         lexeme |-> "Unknown error!",
                         location |-> [line |-> 0, column |-> 0]])]
    ELSE IF node.token = NULL_TOKEN
    THEN [analyzer EXCEPT !.crashed = TRUE]
    ELSE [analyzer EXCEPT !.diagnostics =
              Append(@, [analyzerError |-> analyzer.analyzerError,
                         lexeme |-> node.token.lexeme,
                         location |-> node.token.location])]

\* The exit the checks share: set the error, report it at `at`, return 0.
rejected(analyzer, node, analyzerError, at) ==
    Analyzed(reportAnalyzerError([analyzer EXCEPT !.analyzerError = analyzerError], at),
             node, 0)

traced(analyzer, entry) ==
    [analyzer EXCEPT !.trace = Append(@, entry)]

\* The value read from a member of a nodeValue or symbolValue.
valueOf(analyzer, member) ==
    IF member.defined THEN member.value ELSE analyzer.indeterminate

isNumeric(type) == type = "Int" \/ type = "Float"

ARITHMETIC_TOKENS ==
    {"TOKEN_ARITHMETIC_ADDITION", "TOKEN_ARITHMETIC_SUBTRACTION",
     "TOKEN_ARITHMETIC_MULTIPLICATION", "TOKEN_ARITHMETIC_DIVISION",
     "TOKEN_ARITHMETIC_MODULO"}
LOGICAL_TOKENS == {"TOKEN_LOGICAL_AND_OPERATOR", "TOKEN_LOGICAL_OR_OPERATOR"}
EQUALITY_TOKENS == {"TOKEN_LOGICAL_EQUIVALENCE", "TOKEN_NOT_EQUAL_TO_OPERATOR"}
RELATIONAL_TOKENS ==
    {"TOKEN_GREATER_THAN_OPERATOR", "TOKEN_LESS_THAN_OPERATOR",
     "TOKEN_GREATER_OR_EQUAL_TO_OPERATOR", "TOKEN_LESS_OR_EQUAL_TO_OPERATOR"}

\* A value computed from two member values: Indeterminate when one is.
both(lhs, rhs) == lhs.defined /\ rhs.defined

truth(condition) == IF condition THEN 1 ELSE 0

\* The operand of a floating point operation (analyzer.c 412-415, 491-495).
floatOperand(operand) ==
    IF operand.inferredType = "Float" THEN operand.nodeValue.floatingValue
    ELSE IF operand.nodeValue.integerValue.defined
    THEN Stored(asFloat(operand.nodeValue.integerValue.value))
    ELSE Indeterminate

floatArithmetic(operator, lhs, rhs) ==
    IF ~both(lhs, rhs) THEN Indeterminate
    ELSE Stored(CASE operator = "TOKEN_ARITHMETIC_ADDITION" -> floatSum(lhs.value, rhs.value)
                  [] operator = "TOKEN_ARITHMETIC_SUBTRACTION" ->
                         floatSum(lhs.value, floatNegation(rhs.value))
                  [] operator = "TOKEN_ARITHMETIC_MULTIPLICATION" ->
                         floatProduct(lhs.value, rhs.value)
                  [] operator = "TOKEN_ARITHMETIC_DIVISION" ->
                         floatQuotient(lhs.value, rhs.value)
                  [] operator = "TOKEN_ARITHMETIC_MODULO" ->
                         floatRemainder(lhs.value, rhs.value))

\* analyzer.c 441-442 divide with no look at the divisor: the quotient of a
\* division by zero, and of INT_MIN by -1, is undefined.
quotientIsDefined(dividend, divisor) ==
    divisor # 0 /\ ~(dividend = IntMin /\ divisor = -1)

\* An int result that is no int is undefined.
integerArithmetic(operator, lhs, rhs) ==
    IF ~both(lhs, rhs) THEN Indeterminate
    ELSE CASE operator = "TOKEN_ARITHMETIC_ADDITION" ->
                  IF sumFits(lhs.value, rhs.value)
                  THEN Stored(lhs.value + rhs.value) ELSE Indeterminate
           [] operator = "TOKEN_ARITHMETIC_SUBTRACTION" ->
                  IF differenceFits(lhs.value, rhs.value)
                  THEN Stored(lhs.value - rhs.value) ELSE Indeterminate
           [] operator = "TOKEN_ARITHMETIC_MULTIPLICATION" ->
                  IF productFits(lhs.value, rhs.value)
                  THEN Stored(lhs.value * rhs.value) ELSE Indeterminate
           [] operator = "TOKEN_ARITHMETIC_DIVISION" ->
                  IF quotientIsDefined(lhs.value, rhs.value)
                  THEN Stored(Quotient(lhs.value, rhs.value)) ELSE Indeterminate
           [] operator = "TOKEN_ARITHMETIC_MODULO" ->
                  IF quotientIsDefined(lhs.value, rhs.value)
                  THEN Stored(Remainder(lhs.value, rhs.value)) ELSE Indeterminate

\* Whether the fold of the node is an integer division of analyzer.c 441-442
\* whose quotient is undefined, or may be for what the operands read as.
integerDivisionIsUndefined(node) ==
    /\ node.token.tokenType \in {"TOKEN_ARITHMETIC_DIVISION", "TOKEN_ARITHMETIC_MODULO"}
    /\ node.left.inferredType # "Float"
    /\ node.right.inferredType # "Float"
    /\ \/ ~both(node.left.nodeValue.integerValue, node.right.nodeValue.integerValue)
       \/ ~quotientIsDefined(node.left.nodeValue.integerValue.value,
                             node.right.nodeValue.integerValue.value)

logicalValue(operator, lhs, rhs) ==
    IF ~both(lhs, rhs) THEN Indeterminate
    ELSE IF operator = "TOKEN_LOGICAL_AND_OPERATOR"
    THEN Stored(truth(lhs.value # 0 /\ rhs.value # 0))
    ELSE Stored(truth(lhs.value # 0 \/ rhs.value # 0))

\* int result of analyzer.c 467-480
equalityOf(lhs, rhs) ==
    IF lhs.inferredType = "Int"
    THEN IF both(lhs.nodeValue.integerValue, rhs.nodeValue.integerValue)
         THEN Stored(truth(lhs.nodeValue.integerValue.value
                               = rhs.nodeValue.integerValue.value))
         ELSE Indeterminate
    ELSE IF lhs.inferredType = "Float"
    THEN IF both(lhs.nodeValue.floatingValue, rhs.nodeValue.floatingValue)
         THEN Stored(truth(floatEqual(lhs.nodeValue.floatingValue.value,
                                      rhs.nodeValue.floatingValue.value)))
         ELSE Indeterminate
    ELSE IF lhs.inferredType = "Bool"
    THEN IF both(lhs.nodeValue.booleanValue, rhs.nodeValue.booleanValue)
         THEN Stored(truth(lhs.nodeValue.booleanValue.value
                               = rhs.nodeValue.booleanValue.value))
         ELSE Indeterminate
    ELSE IF lhs.inferredType = "String"
    THEN IF both(lhs.nodeValue.stringLiteral, rhs.nodeValue.stringLiteral)
         THEN Stored(truth(lhs.nodeValue.stringLiteral.value
                               = rhs.nodeValue.stringLiteral.value))
         ELSE Indeterminate
    ELSE Stored(0)

negated(member) ==
    IF member.defined THEN Stored(truth(member.value = 0)) ELSE Indeterminate

relationOf(operator, lhs, rhs) ==
    IF ~both(lhs, rhs) THEN Indeterminate
    ELSE Stored(truth(
             CASE operator = "TOKEN_GREATER_THAN_OPERATOR" -> floatLess(rhs.value, lhs.value)
               [] operator = "TOKEN_LESS_THAN_OPERATOR" -> floatLess(lhs.value, rhs.value)
               [] operator = "TOKEN_GREATER_OR_EQUAL_TO_OPERATOR" ->
                      floatLess(rhs.value, lhs.value) \/ floatEqual(lhs.value, rhs.value)
               [] operator = "TOKEN_LESS_OR_EQUAL_TO_OPERATOR" ->
                      floatLess(lhs.value, rhs.value) \/ floatEqual(lhs.value, rhs.value)))

foldBinaryExpression(node) ==
    IF node.token.tokenType \in ARITHMETIC_TOKENS
    THEN IF node.left.inferredType = "Float" \/ node.right.inferredType = "Float"
         THEN [node EXCEPT
                   !.isFoldable = 1,
                   !.nodeValue.floatingValue =
                       floatArithmetic(node.token.tokenType, floatOperand(node.left),
                                       floatOperand(node.right)),
                   !.inferredType = "Float"]
         ELSE [node EXCEPT
                   !.isFoldable = 1,
                   !.nodeValue.integerValue =
                       integerArithmetic(node.token.tokenType,
                                         node.left.nodeValue.integerValue,
                                         node.right.nodeValue.integerValue),
                   !.inferredType = "Int"]
    ELSE IF node.token.tokenType \in LOGICAL_TOKENS
    THEN IF node.left.isFoldable # 0 /\ node.right.isFoldable # 0
         THEN [node EXCEPT
                   !.inferredType = "Bool",
                   !.nodeValue.booleanValue =
                       logicalValue(node.token.tokenType,
                                    node.left.nodeValue.booleanValue,
                                    node.right.nodeValue.booleanValue),
                   !.isFoldable = 1]
         ELSE [node EXCEPT !.inferredType = "Bool"]
    ELSE IF node.token.tokenType \in EQUALITY_TOKENS
    THEN [node EXCEPT
              !.inferredType = "Bool",
              !.nodeValue.booleanValue =
                  IF node.token.tokenType = "TOKEN_LOGICAL_EQUIVALENCE"
                  THEN equalityOf(node.left, node.right)
                  ELSE negated(equalityOf(node.left, node.right)),
              !.isFoldable = 1]
    ELSE IF node.token.tokenType \in RELATIONAL_TOKENS
    THEN [node EXCEPT
              !.inferredType = "Bool",
              !.nodeValue.booleanValue =
                  relationOf(node.token.tokenType, floatOperand(node.left),
                             floatOperand(node.right)),
              !.isFoldable = 1]
    ELSE node

\* for (int term = 1; term <= number; term++) result *= term;
\* result is a member: a product that is no int is undefined.
RECURSIVE factorialLoop(_, _, _)
factorialLoop(number, term, result) ==
    IF term <= number /\ result.defined
    THEN factorialLoop(number, term + 1,
                       IF productFits(result.value, term)
                       THEN Stored(result.value * term) ELSE Indeterminate)
    ELSE result

foldUnaryExpression(node) ==
    IF node.token.tokenType = "TOKEN_ARITHMETIC_SUBTRACTION"
    THEN IF node.left.inferredType = "Float"
         THEN [node EXCEPT
                   !.isFoldable = 1,
                   !.nodeValue.floatingValue =
                       IF node.left.nodeValue.floatingValue.defined
                       THEN Stored(floatNegation(node.left.nodeValue.floatingValue.value))
                       ELSE Indeterminate,
                   !.inferredType = "Float"]
         ELSE IF node.left.inferredType = "Int"
         THEN [node EXCEPT
                   !.isFoldable = 1,
                   !.nodeValue.integerValue =
                       IF node.left.nodeValue.integerValue.defined
                          /\ node.left.nodeValue.integerValue.value # IntMin
                       THEN Stored(-node.left.nodeValue.integerValue.value)
                       ELSE Indeterminate,
                   !.inferredType = "Int"]
         ELSE node
    ELSE IF node.token.tokenType = "TOKEN_LOGICAL_NEGATION"
    THEN IF node.left.isFoldable # 0
         THEN [node EXCEPT !.isFoldable = 1,
                           !.nodeValue.booleanValue = negated(node.left.nodeValue.booleanValue),
                           !.inferredType = "Bool"]
         ELSE [node EXCEPT !.inferredType = "Bool"]
    ELSE IF node.token.tokenType = "TOKEN_ARITHMETIC_FACTORIAL"
    THEN [node EXCEPT
              !.isFoldable = 1,
              !.nodeValue.integerValue =
                  IF node.left.nodeValue.integerValue.defined
                  THEN factorialLoop(node.left.nodeValue.integerValue.value, 1, Stored(1))
                  ELSE Indeterminate,
              !.inferredType = "Int"]
    ELSE node

\* analyzer.c 149-154
analyzeBooleanLiteral(node) ==
    [node EXCEPT !.inferredType = "Bool",
                 !.isFoldable = 1,
                 !.nodeValue.booleanValue = Stored(truth(node.token.lexeme = "true"))]

\* analyzer.c 157-182
analyzeLiteral(node) ==
    IF node.token.tokenType = "TOKEN_STRING_LITERAL"
    THEN [node EXCEPT !.inferredType = "String",
                      !.isFoldable = 1,
                      !.nodeValue.stringLiteral = Stored(node.token.lexeme)]
    ELSE IF node.token.tokenType = "TOKEN_NUMERIC"
    THEN IF hasPoint(node.token.lexeme)
         THEN [node EXCEPT !.inferredType = "Float",
                           !.isFoldable = 1,
                           !.nodeValue.floatingValue = atof(node.token.lexeme)]
         ELSE [node EXCEPT !.inferredType = "Int",
                           !.isFoldable = 1,
                           !.nodeValue.integerValue = atoi(node.token.lexeme)]
    ELSE node

\* The value an initialized symbol gives the node that refers to it
\* (analyzer.c 198-223): strcmp is not 0 when the strings differ.
referenceValue(node, symbol) ==
    IF symbol.hasInitialized # 0
    THEN IF symbol.type # "String"
         THEN [node EXCEPT !.nodeValue.stringLiteral = symbol.symbolValue.stringLiteral]
         ELSE IF symbol.type # "Float"
         THEN [node EXCEPT !.nodeValue.floatingValue = symbol.symbolValue.floatingValue]
         ELSE IF symbol.type # "Int"
         THEN [node EXCEPT !.nodeValue.integerValue = symbol.symbolValue.integerValue]
         ELSE IF symbol.type # "Bool"
         THEN [node EXCEPT !.nodeValue.booleanValue = symbol.symbolValue.booleanValue]
         ELSE [node EXCEPT !.isFoldable = 0]
    ELSE [node EXCEPT !.isFoldable = 0]

referenceEntry(analyzer, node, symbol) ==
    [event |-> "reference", identifier |-> node.token.lexeme,
     symbolTable |-> analyzer.symbolTable, symbol |-> symbol]

\* analyzer.c 185-225; symbol is what the lookup has returned.
analyzeIdentifier(analyzer, node, symbol) ==
    IF symbol = 0
    THEN rejected(traced(analyzer, referenceEntry(analyzer, node, symbol)), node,
                  "ANALYZER_ERROR_UNDECLARED_VARIABLE", node)
    ELSE Analyzed(traced(analyzer, referenceEntry(analyzer, node, symbol)),
                  referenceValue(
                      [node EXCEPT !.inferredType =
                                       analyzer.symbolTable.headSymbol[symbol].type],
                      analyzer.symbolTable.headSymbol[symbol]),
                  1)

\* analyzer.c 287: the fold of a binary expression whose operands fold.
foldOperands(analyzer, node) ==
    IF node.left.isFoldable # 0 /\ node.right.isFoldable # 0
    THEN IF integerDivisionIsUndefined(node) /\ analyzer.divisionTraps
         THEN Analyzed([analyzer EXCEPT !.crashed = TRUE], node, 0)
         ELSE Analyzed(analyzer, foldBinaryExpression(node), 1)
    ELSE Analyzed(analyzer, node, 1)

\* analyzer.c 233-290: the operands are analyzed, the operator is checked.
analyzeBinaryOperator_typeOfLeftOperand(analyzer, node) ==
    IF node.token.tokenType \in ARITHMETIC_TOKENS
    THEN IF ~isNumeric(node.left.inferredType) \/ ~isNumeric(node.right.inferredType)
         THEN rejected(analyzer, node, "ANALYZER_ERROR_OPERATION_TYPE_MISSMATCH", node)
         ELSE foldOperands(
                  analyzer,
                  [node EXCEPT !.inferredType = node.left.inferredType])
    ELSE IF node.token.tokenType \in LOGICAL_TOKENS
    THEN IF node.left.inferredType # "Bool" \/ node.right.inferredType # "Bool"
         THEN rejected(analyzer, node, "ANALYZER_ERROR_OPERATION_TYPE_MISSMATCH", node)
         ELSE foldOperands(analyzer, node)
    ELSE IF node.token.tokenType \in EQUALITY_TOKENS
    THEN IF node.left.inferredType # node.right.inferredType
         THEN rejected(analyzer, node, "ANALYZER_ERROR_OPERATION_TYPE_MISSMATCH", node)
         ELSE foldOperands(analyzer, node)
    ELSE IF node.token.tokenType \in RELATIONAL_TOKENS
    THEN IF ~(isNumeric(node.left.inferredType) /\ isNumeric(node.right.inferredType))
         THEN rejected(analyzer, node, "ANALYZER_ERROR_OPERATION_TYPE_MISSMATCH", node)
         ELSE foldOperands(analyzer, node)
    ELSE foldOperands(analyzer, node)

analyzeBinaryOperator(analyzer, node) ==
    IF node.token.tokenType \in ARITHMETIC_TOKENS
    THEN IF ~isNumeric(node.left.inferredType) \/ ~isNumeric(node.right.inferredType)
         THEN rejected(analyzer, node, "ANALYZER_ERROR_OPERATION_TYPE_MISSMATCH", node)
         ELSE foldOperands(
                  analyzer,
                  [node EXCEPT !.inferredType =
                                   IF node.left.inferredType = "Float"
                                      \/ node.right.inferredType = "Float"
                                   THEN "Float" ELSE "Int"])
    ELSE IF node.token.tokenType \in LOGICAL_TOKENS
    THEN IF node.left.inferredType # "Bool" \/ node.right.inferredType # "Bool"
         THEN rejected(analyzer, node, "ANALYZER_ERROR_OPERATION_TYPE_MISSMATCH", node)
         ELSE foldOperands(analyzer, node)
    ELSE IF node.token.tokenType \in EQUALITY_TOKENS
    THEN IF node.left.inferredType # node.right.inferredType
         THEN rejected(analyzer, node, "ANALYZER_ERROR_OPERATION_TYPE_MISSMATCH", node)
         ELSE foldOperands(analyzer, node)
    ELSE IF node.token.tokenType \in RELATIONAL_TOKENS
    THEN IF ~(isNumeric(node.left.inferredType) /\ isNumeric(node.right.inferredType))
         THEN rejected(analyzer, node, "ANALYZER_ERROR_OPERATION_TYPE_MISSMATCH", node)
         ELSE foldOperands(analyzer, node)
    ELSE foldOperands(analyzer, node)

\* The type a unary expression is given (analyzer.c 308, 318, 328).
unaryType(node) ==
    CASE node.token.tokenType = "TOKEN_ARITHMETIC_SUBTRACTION" -> node.left.inferredType
      [] node.token.tokenType = "TOKEN_LOGICAL_NEGATION" -> "Bool"
      [] node.token.tokenType = "TOKEN_ARITHMETIC_FACTORIAL" -> "Int"
      [] OTHER -> node.inferredType

\* analyzer.c 331: the fold of a unary expression whose operand folds.
foldOperand(node) ==
    IF node.left.isFoldable # 0 THEN foldUnaryExpression(node) ELSE node

\* analyzer.c 298-332: the operand is analyzed, the operator is checked.
analyzeUnaryOperator(analyzer, node) ==
    IF \/ node.token.tokenType = "TOKEN_ARITHMETIC_SUBTRACTION"
          /\ ~isNumeric(node.left.inferredType)
       \/ node.token.tokenType = "TOKEN_LOGICAL_NEGATION"
          /\ node.left.inferredType # "Bool"
       \/ node.token.tokenType = "TOKEN_ARITHMETIC_FACTORIAL"
          /\ node.left.inferredType # "Int"
    THEN rejected(analyzer, node, "ANALYZER_ERROR_OPERATION_TYPE_MISSMATCH", node)
    ELSE Analyzed(analyzer,
                  foldOperand([node EXCEPT !.inferredType = unaryType(node)]), 1)

RECURSIVE analyzeExpression(_, _)

\* The operand of a unary expression is analyzed (analyzer.c 296).
analyzeUnaryOperand(operand, node) ==
    IF operand.result = 0
    THEN Analyzed(operand.analyzer, [node EXCEPT !.left = operand.node], 0)
    ELSE analyzeUnaryOperator(operand.analyzer, [node EXCEPT !.left = operand.node])

\* The right operand of a binary expression is analyzed (analyzer.c 231).
analyzeRightOperand(operand, node) ==
    IF operand.result = 0
    THEN Analyzed(operand.analyzer, [node EXCEPT !.right = operand.node], 0)
    ELSE analyzeBinaryOperator(operand.analyzer, [node EXCEPT !.right = operand.node])

\* The left operand of a binary expression is analyzed (analyzer.c 230).
analyzeLeftOperand(operand, node) ==
    IF operand.result = 0
    THEN Analyzed(operand.analyzer, [node EXCEPT !.left = operand.node], 0)
    ELSE Then(analyzeExpression(operand.analyzer, node.right),
              LAMBDA right : analyzeRightOperand(right,
                                                 [node EXCEPT !.left = operand.node]))

analyzeExpression(analyzer, node) ==
    IF node = NULL THEN Analyzed(analyzer, node, 1)
    ELSE IF analyzer.crashed THEN Analyzed(analyzer, node, 0)
    ELSE IF node.nodeType = "AST_BOOLEAN_LITERAL"
    THEN Analyzed(analyzer, analyzeBooleanLiteral(node), 1)
    ELSE IF node.nodeType = "AST_LITERAL"
    THEN Analyzed(analyzer, analyzeLiteral(node), 1)
    ELSE IF node.nodeType = "AST_IDENTIFIER"
    THEN analyzeIdentifier(
             analyzer, node,
             lookupSymbolFromCurrentNamespace(analyzer.symbolTable, node.token.lexeme))
    ELSE IF node.nodeType = "AST_BINARY_EXPRESSION"
    THEN Then(analyzeExpression(analyzer, node.left),
              LAMBDA left : analyzeLeftOperand(left, node))
    ELSE IF node.nodeType = "AST_UNARY_EXPRESSION"
    THEN Then(analyzeExpression(analyzer, node.left),
              LAMBDA operand : analyzeUnaryOperand(operand, node))
    ELSE Analyzed(analyzer, node, 1)

\* int && int
And(first, second) == IF first # 0 /\ second # 0 THEN 1 ELSE 0

\* The entries of the trace for a declaration and for an assignment:
\* `before` is the analyzer at the lookup of the identifier, `outcome` what
\* the statement returns, `analyzed` the node as the statement has left it,
\* `reported` what it has printed.
statementEntry(event, before, outcome, node, identifier, symbol) ==
    Analyzed(
        traced(outcome.analyzer,
               [event |-> event, identifier |-> identifier,
                symbolTable |-> before.symbolTable, symbol |-> symbol,
                nodeType |-> node.nodeType, target |-> node.left.token,
                result |-> outcome.result,
                analyzed |-> outcome.node,
                crashed |-> outcome.analyzer.crashed,
                after |-> outcome.analyzer.symbolTable,
                reported |-> SubSeq(outcome.analyzer.diagnostics,
                                    Len(before.diagnostics) + 1,
                                    Len(outcome.analyzer.diagnostics))]),
        outcome.node, outcome.result)

\* The entry of the trace for the right-hand side of an assignment
\* (analyzer.c 100) once analyzeExpression has returned `expression`.
expressionTraced(expression) ==
    IF expression.analyzer.crashed THEN expression
    ELSE Analyzed(traced(expression.analyzer,
                         [event |-> "expression", analyzed |-> expression.node,
                          result |-> expression.result]),
                  expression.node, expression.result)

\* The entry of the trace for the condition of a conditional statement
\* (analyzer.c 359): `analyzed` is the statement with its condition as
\* analyzeExpression has left it.
conditionTraced(condition, node) ==
    IF condition.analyzer.crashed THEN condition
    ELSE Analyzed(traced(condition.analyzer,
                         [event |-> "condition",
                          analyzed |-> [node EXCEPT !.left = condition.node],
                          result |-> condition.result]),
                  condition.node, condition.result)

\* analyzer.c 58-61
declareSymbol(symbolTable, node) ==
    IF node.nodeType = "AST_VARIABLE_DECLARATION"
    THEN [addSymbol(symbolTable, node.left.token.lexeme, node.right.token.lexeme,
                    node.token.location)
              EXCEPT !.headSymbol[1].isMutable = 1]
    ELSE addSymbol(symbolTable, node.left.token.lexeme, node.right.token.lexeme,
                   node.token.location)

\* analyzer.c 51-63; symbol is what the lookup has returned.
analyzeDeclaration(analyzer, node, symbol) ==
    statementEntry(
        "declaration", analyzer,
        IF symbol # 0
        THEN rejected(analyzer, node, "ANALYZER_ERROR_REDECLARED_VARIABLE", node.left)
        ELSE Analyzed([analyzer EXCEPT !.symbolTable = declareSymbol(@, node)], node, 1),
        node, node.left.token.lexeme, symbol)

analyzeDeclarationStatement(analyzer, node) ==
    analyzeDeclaration(
        analyzer, node,
        lookupSymbolFromCurrentNamespace(analyzer.symbolTable, node.left.token.lexeme))

\* analyzer.c 110-135
propagatedValue(symbolValue, right) ==
    IF right.isFoldable = 0 THEN symbolValue
    ELSE IF right.inferredType = "Int"
    THEN [symbolValue EXCEPT !.integerValue = right.nodeValue.integerValue]
    ELSE IF right.inferredType = "Float"
    THEN [symbolValue EXCEPT !.floatingValue = right.nodeValue.floatingValue]
    ELSE IF right.inferredType = "Bool"
    THEN [symbolValue EXCEPT !.booleanValue = right.nodeValue.booleanValue]
    ELSE IF right.inferredType = "String"
    THEN [symbolValue EXCEPT !.stringLiteral = right.nodeValue.stringLiteral]
    ELSE symbolValue

\* analyzer.c 110-138
initializeSymbol(symbolTable, symbol, right) ==
    [symbolTable EXCEPT
         !.headSymbol[symbol].symbolValue = propagatedValue(@, right),
         !.headSymbol[symbol].hasInitialized = 1]

\* analyzer.c 100-139: the right-hand side is analyzed.
assignValue_initializesBeforeTheTypeCheck(right, node, symbol) ==
    IF right.analyzer.crashed
    THEN Analyzed(right.analyzer, [node EXCEPT !.right = right.node], 0)
    ELSE IF right.analyzer.symbolTable.headSymbol[symbol].type # right.node.inferredType
    THEN rejected([right.analyzer EXCEPT
                       !.symbolTable = initializeSymbol(@, symbol, right.node)],
                  [node EXCEPT !.right = right.node],
                  "ANALYZER_ERROR_OPERATION_TYPE_MISSMATCH",
                  [node EXCEPT !.right = right.node])
    ELSE Analyzed([right.analyzer EXCEPT
                       !.symbolTable = initializeSymbol(@, symbol, right.node)],
                  [node EXCEPT !.right = right.node],
                  right.result)

assignValue(right, node, symbol) ==
    IF right.analyzer.crashed
    THEN Analyzed(right.analyzer, [node EXCEPT !.right = right.node], 0)
    ELSE IF right.analyzer.symbolTable.headSymbol[symbol].type # right.node.inferredType
    THEN rejected(right.analyzer, [node EXCEPT !.right = right.node],
                  "ANALYZER_ERROR_OPERATION_TYPE_MISSMATCH",
                  [node EXCEPT !.right = right.node])
    ELSE Analyzed([right.analyzer EXCEPT
                       !.symbolTable = initializeSymbol(@, symbol, right.node)],
                  [node EXCEPT !.right = right.node],
                  right.result)

\* analyzer.c 93
isConstantModification_ofVariable(symbol) ==
    symbol.isMutable # 0 /\ symbol.hasInitialized # 0

isConstantModification(symbol) ==
    symbol.isMutable = 0 /\ symbol.hasInitialized # 0

RECURSIVE analyzeStatement(_, _), analyzeCodeBlock(_, _),
          analyzeConditionalStatement(_, _), analyzeStatements(_, _, _)

\* analyzer.c 83-139; symbol is what the lookup has returned.
assignSymbol(analyzer, node, identifier, symbol) ==
    statementEntry(
        "assignment", analyzer,
        IF symbol = 0
        THEN rejected(analyzer, node, "ANALYZER_ERROR_UNDECLARED_VARIABLE", node.left)
        ELSE IF isConstantModification(analyzer.symbolTable.headSymbol[symbol])
        THEN rejected(analyzer, node, "ANALYZER_ERROR_IMMUTABLE_MODIFICATION", node.left)
        ELSE Then(analyzeExpression(analyzer, node.right),
                  LAMBDA right : assignValue(expressionTraced(right), node, symbol)),
        node, identifier, symbol)

\* analyzer.c 73-80: the declaration on the left is analyzed.
assignDeclared(declaration, node) ==
    IF declaration.result = 0
    THEN Analyzed(declaration.analyzer, node, 0)
    ELSE assignSymbol(
             declaration.analyzer, node,
             declaration.analyzer.symbolTable.headSymbol[1].identifier,
             lookupSymbolFromCurrentNamespace(
                 declaration.analyzer.symbolTable,
                 declaration.analyzer.symbolTable.headSymbol[1].identifier))

analyzeAssignmentStatement(analyzer, node) ==
    IF node.left.nodeType \in {"AST_VARIABLE_DECLARATION", "AST_CONSTANT_DECLARATION"}
    THEN Then(analyzeDeclarationStatement(analyzer, node.left),
              LAMBDA declaration : assignDeclared(declaration, node))
    ELSE assignSymbol(analyzer, node, node.left.token.lexeme,
                      lookupSymbolFromCurrentNamespace(analyzer.symbolTable,
                                                       node.left.token.lexeme))

analyzeStatement(analyzer, node) ==
    IF analyzer.crashed THEN Analyzed(analyzer, node, 0)
    ELSE IF node.nodeType \in {"AST_VARIABLE_DECLARATION", "AST_CONSTANT_DECLARATION"}
    THEN analyzeDeclarationStatement(analyzer, node)
    ELSE IF node.nodeType = "AST_ASSIGNMENT_STATEMENT"
    THEN analyzeAssignmentStatement(analyzer, node)
    ELSE IF node.nodeType = "AST_CONDITIONAL_STATEMENT"
    THEN analyzeConditionalStatement(analyzer, node)
    ELSE Analyzed(analyzer, node, 1)

\* `rest` is what the analysis of node's right child returns.
withRight(node, rest, result) ==
    Analyzed(rest.analyzer, [node EXCEPT !.right = rest.node], And(rest.result, result))

\* `first` is what the analysis of node's left child returns.
withLeft(node, first, result) ==
    Analyzed(first.analyzer, [node EXCEPT !.left = first.node], And(first.result, result))

\* analyzer.c 346-347: a statement of the loop is analyzed; the loop goes on
\* with the right child of the statement.
analyzeStatementsRest(statement, result) ==
    withRight(statement.node,
              analyzeStatements(statement.analyzer, statement.node.right,
                                And(statement.result, result)),
              1)

\* The loop of analyzeCodeBlock (analyzer.c 344-348).
analyzeStatements(analyzer, statement, result) ==
    IF statement = NULL THEN Analyzed(analyzer, statement, result)
    ELSE Then(analyzeStatement(analyzer, statement),
              LAMBDA analyzed : analyzeStatementsRest(analyzed, result))

\* analyzer.c 351-352: the loop of the block is over.
analyzeCodeBlockRest(statements, node) ==
    IF node.right # NULL
    THEN withRight([node EXCEPT !.left = statements.node],
                   analyzeCodeBlock(statements.analyzer, node.right),
                   statements.result)
    ELSE Analyzed(statements.analyzer, [node EXCEPT !.left = statements.node],
                  statements.result)

analyzeCodeBlock(analyzer, node) ==
    Then(analyzeStatements(analyzer, node.left, 1),
         LAMBDA statements : analyzeCodeBlockRest(statements, node))

\* enterNamespace(analyzer->symbolTable)
enteredNamespace(analyzer) ==
    IF analyzer.crashed THEN analyzer
    ELSE traced([analyzer EXCEPT !.symbolTable = enterNamespace(@)],
                [event |-> "enter", symbolTable |-> analyzer.symbolTable])

\* exitNamespace(analyzer->symbolTable) after the block of a branch
exitedNamespace(block) ==
    IF block.analyzer.crashed THEN block
    ELSE Analyzed(traced([block.analyzer EXCEPT !.symbolTable = exitNamespace(@)],
                         [event |-> "exit", symbolTable |-> block.analyzer.symbolTable]),
                  block.node, block.result)

withIfBody(node, block, result) ==
    Analyzed(block.analyzer, [node EXCEPT !.right.left = block.node],
             And(block.result, result))

withElseBody(node, block, result) ==
    Analyzed(block.analyzer, [node EXCEPT !.right.right = block.node],
             And(block.result, result))

\* analyzer.c 379-383
analyzeIfBody(analyzer, node, result, safeEliminateFirstCodeBlock) ==
    IF node.right.left # NULL /\ ~safeEliminateFirstCodeBlock
    THEN Then(analyzeCodeBlock(enteredNamespace(analyzer), node.right.left),
              LAMBDA block : withIfBody(node, exitedNamespace(block), result))
    ELSE Analyzed(analyzer, node, result)

\* analyzer.c 386-390; `first` is what the if-body has left.
analyzeElseBody(first, safeEliminateSecondCodeBlock) ==
    IF first.node.right.right # NULL /\ ~safeEliminateSecondCodeBlock
    THEN Then(analyzeCodeBlock(enteredNamespace(first.analyzer),
                               first.node.right.right),
              LAMBDA block : withElseBody(first.node, exitedNamespace(block),
                                          first.result))
    ELSE first

\* analyzer.c 377-393
analyzeBranches(analyzer, node, result, safeEliminateFirst, safeEliminateSecond) ==
    IF node.right.nodeType = "AST_CONDITIONAL_BODY"
    THEN Then(analyzeIfBody(analyzer, node, result, safeEliminateFirst),
              LAMBDA first : analyzeElseBody(first, safeEliminateSecond))
    ELSE Analyzed(analyzer, node, result)

\* analyzer.c 362-375: the condition is analyzed.
analyzeCondition(condition, node) ==
    IF condition.analyzer.crashed
    THEN Analyzed(condition.analyzer, [node EXCEPT !.left = condition.node], 0)
    ELSE IF condition.result = 0 \/ condition.node.inferredType # "Bool"
    THEN rejected(condition.analyzer, [node EXCEPT !.left = condition.node],
                  "ANALYZER_ERROR_INVALID_CONDITION", node)
    ELSE analyzeBranches(
             condition.analyzer, [node EXCEPT !.left = condition.node],
             condition.result,
             /\ condition.node.isFoldable # 0
             /\ valueOf(condition.analyzer, condition.node.nodeValue.booleanValue) = 0,
             /\ condition.node.isFoldable # 0
             /\ valueOf(condition.analyzer, condition.node.nodeValue.booleanValue) # 0)

analyzeConditionalStatement(analyzer, node) ==
    Then(analyzeExpression(analyzer, node.left),
         LAMBDA condition : analyzeCondition(conditionTraced(condition, node), node))

RECURSIVE analyzeProgram(_, _)

\* analyzer.c 22; `first` is what the statement of the node has left.
analyzeProgramRest(first) ==
    IF first.node.right # NULL
    THEN withRight(first.node, analyzeProgram(first.analyzer, first.node.right),
                   first.result)
    ELSE first

analyzeProgram(analyzer, node) ==
    IF node = NULL THEN Analyzed(analyzer, node, 1)
    ELSE IF node.nodeType = "AST_PROGRAM"
    THEN Then(IF node.left # NULL
              THEN withLeft(node, analyzeStatement(analyzer, node.left), 1)
              ELSE Analyzed(analyzer, node, 1),
              LAMBDA first : analyzeProgramRest(first))
    ELSE Analyzed(analyzer, node, 1)

-----------------------------------------------------------------------------
(* The lexer driver (main.c): getNextToken is called until it returns the  *)
(* end-of-file token.                                                      *)

Alphabet == {"x", "1", "!", "=", "\n", " ", "(", ")", "[", "{"}

RECURSIVE Sources(_)
Sources(length) ==
    IF length = 0 THEN {""}
    ELSE LET shorter == Sources(length - 1)
         IN  shorter \cup {text \o character : text \in shorter, character \in Alphabet}

LexerIdle == lexer = initLexer /\ tokens = <<>> /\ history = <<>>
ParserIdle == parserState = initParser /\ astRoot = NULL

\* The analyzer before analyzeProgram is called.
NoAnalysis == [node |-> NULL, result |-> -1]
AnalyzerIdle ==
    analyzerState = initAnalyzer(NULL, initSymbolTable) /\ analysis = NoAnalysis

Init ==
    /\ sourceCode \in Sources(MaxSourceLength)
    /\ LexerIdle
    /\ ParserIdle
    /\ AnalyzerIdle

\* A call that writes past the end of the lexeme buffers returns its token
\* or the run dies in it; no call is made after it.
GetToken ==
    /\ IF tokens = <<>> THEN TRUE
       ELSE tokens[Len(tokens)].tokenType # "TOKEN_EOF"
    /\ ~lexer.crashed
    /\ LET result == getNextToken(lexer, sourceCode)
       IN  /\ lexer' = result.lx
           /\ \E returns \in IF result.lx.crashed THEN BOOLEAN ELSE {TRUE} :
                  /\ tokens' = IF returns THEN Append(tokens, result.token) ELSE tokens
                  /\ history' = IF returns THEN Append(history, lexer) ELSE history
    /\ UNCHANGED <<sourceCode, parserState, astRoot, analyzerState, analysis>>

Next == GetToken

Spec == Init /\ [][Next]_vars

-----------------------------------------------------------------------------
(* The parser driver: the first token is read, then parseProgram is run.   *)
(* A NULL diagnosticToken makes reportParseError read through a NULL       *)
(* pointer: the run may die there (no root is returned) or go on.              *)

StartParser ==
    /\ parserState.currentToken = NULL_TOKEN
    /\ parserState' = advanceParser(parserState, SourceFile(sourceCode))
    /\ UNCHANGED <<sourceCode, lexer, tokens, history, astRoot, analyzerState, analysis>>

ParseProgram ==
    /\ parserState.currentToken # NULL_TOKEN
    /\ astRoot = NULL
    /\ ~parserState.crashed
    /\ LET result == parseProgram(parserState, SourceFile(sourceCode))
       IN  /\ parserState' = result.parser
           /\ astRoot' \in IF result.parser.crashed THEN {NULL, result.node}
                           ELSE {result.node}
    /\ UNCHANGED <<sourceCode, lexer, tokens, history, analyzerState, analysis>>

NextParser == StartParser \/ ParseProgram

\* Expressions: operands joined by binary operators, blanks in between.
Operands == {"a", "true"}
BinaryOperators == {"||", "&&", "!=", "<", "+", "-", "*"}

RECURSIVE Expressions(_)
Expressions(operators) ==
    IF operators = 0 THEN Operands
    ELSE LET shorter == Expressions(operators - 1)
         IN  shorter \cup {text \o " " \o operator \o " " \o operand :
                               text \in shorter, operator \in BinaryOperators,
                               operand \in Operands}

InitExpression ==
    /\ sourceCode \in Expressions(MaxOperators)
    /\ LexerIdle
    /\ ParserIdle
    /\ AnalyzerIdle

SpecExpression == InitExpression /\ [][NextParser]_vars

\* Programs: lines of the pool, each ended by a newline, the last one
\* possibly ended by the end of the file instead.
StatementLines ==
    {"var x: Int", "let y: Int = 2", "x = 1", "-y", "f()", "return x",
     "func f(1) -> Int", "var = 1", ""}

RECURSIVE Programs(_)
Programs(statements) ==
    IF statements = 0 THEN {""}
    ELSE LET shorter == Programs(statements - 1)
         IN  shorter \cup {text \o line \o "\n" : text \in shorter,
                                                  line \in StatementLines}

\* Lines whose right-hand side, return value or iterable is no expression,
\* ended by a newline or by the end of the file.
FailedLines == {"x =", "x = =\n", "return =", "return =\n", "for i in (\n"}

InitProgram ==
    /\ sourceCode \in Programs(MaxStatements)
                      \cup {text \o line : text \in Programs(MaxStatements - 1),
                                           line \in StatementLines \ {""}}
                      \cup {text \o line : text \in Programs(1), line \in FailedLines}
    /\ LexerIdle
    /\ ParserIdle
    /\ AnalyzerIdle

SpecProgram == InitProgram /\ [][NextParser]_vars

-----------------------------------------------------------------------------
(* The analyzer run: the program is parsed, the analyzer and its symbol    *)
(* table are initialized, then analyzeProgram is run on the root.          *)

\* What the parser driver makes of a text on its own.
ParseOf(text) ==
    parseProgram(advanceParser(initParser, SourceFile(text)), SourceFile(text))

\* Programs: declarations, then a conditional statement whose branches are
\* programs again, then assignments.
Declarations == {"", "var a: Int\n", "let c: Int\n", "let c: Int = 1\n"}
Assignments == {"", "a = 1\n", "c = 2\n"}

Conditionals(body) ==
    {"if true {\n" \o body \o "}\n",
     "var b: Bool\nif b {\n" \o body \o "} else {\n" \o body \o "}\n"}

RECURSIVE NestedPrograms(_)
NestedPrograms(nesting) ==
    IF nesting = 0
    THEN {declaration \o assignment :
              declaration \in Declarations, assignment \in Assignments}
    ELSE NestedPrograms(nesting - 1)
         \cup {declaration \o conditional \o assignment :
                   declaration \in Declarations,
                   conditional \in UNION {Conditionals(body) :
                                              body \in NestedPrograms(nesting - 1)},
                   assignment \in Assignments}

\* tests/phase-3/namespace.opus without its comments and with its names cut
\* to their initials, and a program that assigns three times to a constant
\* and to a variable, programs that assign a value of another type, and
\* programs with logical, equality and relational expressions, and a program
\* with factorials, programs with Int and Float operands, programs with
\* conditions that fold, programs with a division by zero, and a program
\* whose condition negates a variable nothing was assigned to, and a program
\* that assigns a sum with such a variable and refers to what it assigned,
\* and programs with an `else if` clause after a condition that does not
\* fold.
TestPrograms ==
    {"var g: Int\nif (true) {\ng = 42\nvar k: String\n"
         \o "if (1 == 1) {\nlet v: Bool = true\n}\nv = false\n}\n",
     "let c: Int\nvar a: Int\nc = true\na = true\nc = 2\na = 1\nc = 3\na = 2\n",
     "var y: Int = 3.14\ny = 1\n", "let s: String = 1 + 2\nvar f: Float\nf = f + 1\n",
     "var a: Int\nvar b: Bool = a == 1\nif a < 2 {\na = 1\n}\n",
     "var b: Bool = 1 == 1\nif 1 < 2 {\nb = 1 >= 2 || b\n}\n",
     "var p: Bool\nvar q: Bool = p && true\nif p || q {\nq = 1.5 <= 2\n}\n",
     "var x: Int = 3!\nvar s: String\nx = s!\n",
     "var r: Float = 1 + 2.0\nr = 2.0 + 1\nvar i: Int = 2 * 3\n",
     "var i: Int\nvar f: Float\nvar r: Float = i / f\nr = f / i\nr = i - 2.5\ni = i % i\n",
     "if true {\nif true {\nvar a: Int\n} else if true {\nu = 1\n}\n}\n",
     "if 1 > 2 {\nvar a: Int\nu = 1\n} else {\nvar d: Int\n}\nif true {\nd = 1\n}\n",
     "var z: Int = 1 / 0\nvar k: Int\n",
     "var m: Int = 7 % 0\nm = 1\n",
     "var b: Bool\nif !b {\nb = true\n} else {\nb = false\n}\n",
     "var i: Int\nvar j: Int = i + 1\nvar k: Int = j\n",
     "var b: Bool\nif b {\nb = true\n} else if 1 {\nu = 1\n} else {\nb = false\n}\n",
     "var b: Bool\nif b {\nb = true\n} else if b {\nvar b: Int\n}\n"}

\* Programs that assign an expression of Int literals and arithmetic
\* operators, blanks in between.
IntLiterals == {"-7", "2"}
ArithmeticOperators == {"+", "-", "*", "/", "%"}

RECURSIVE ArithmeticExpressions(_)
ArithmeticExpressions(operators) ==
    IF operators = 0 THEN IntLiterals
    ELSE ArithmeticExpressions(operators - 1)
         \cup {text \o " " \o operator \o " " \o operand :
                   text \in ArithmeticExpressions(operators - 1),
                   operator \in ArithmeticOperators, operand \in IntLiterals}

ArithmeticPrograms(operators) ==
    {"var r: Int = " \o expression \o "\n" :
         expression \in ArithmeticExpressions(operators)}

\* Programs that assign an arithmetic expression of two numeric literals.
NumericLiterals == {"2", "0.5"}
NumericPrograms ==
    {"var r: Float = " \o lhs \o " " \o operator \o " " \o rhs \o "\n" :
         lhs \in NumericLiterals, operator \in ArithmeticOperators,
         rhs \in NumericLiterals}

InitAnalysis ==
    /\ sourceCode \in NestedPrograms(MaxNesting) \cup TestPrograms
                       \cup ArithmeticPrograms(MaxArithmetic) \cup NumericPrograms
    /\ LexerIdle
    /\ \E parsed \in {ParseOf(sourceCode)} :
           /\ parserState = parsed.parser
           /\ astRoot = parsed.node
    /\ AnalyzerIdle

\* What the members nothing was stored in read as, and what an integer
\* division by zero does, are fixed for the run.
AnalyzeProgram ==
    /\ analysis = NoAnalysis
    /\ \E indeterminate \in {0, 1}, divisionTraps \in BOOLEAN :
           LET run == analyzeProgram(
                          [analyzerState EXCEPT !.indeterminate = indeterminate,
                                                !.divisionTraps = divisionTraps],
                          astRoot)
           IN  /\ analyzerState' = run.analyzer
               /\ analysis' = [node |-> run.node, result |-> run.result]
    /\ UNCHANGED <<sourceCode, lexer, tokens, history, parserState, astRoot>>

NextAnalysis == AnalyzeProgram

SpecAnalyzer == InitAnalysis /\ [][NextAnalysis]_vars

-----------------------------------------------------------------------------
(* The symbol table on its own: addSymbol, enterNamespace and              *)
(* exitNamespace are called in any order on the table of initSymbolTable.  *)

SymbolIdentifiers == {"a", "b"}

InitTable ==
    /\ sourceCode = ""
    /\ LexerIdle
    /\ ParserIdle
    /\ AnalyzerIdle

AddSymbol ==
    /\ analyzerState.symbolTable.allocated < MaxSymbols
    /\ \E identifier \in SymbolIdentifiers :
           analyzerState' =
               [analyzerState EXCEPT
                    !.symbolTable = addSymbol(@, identifier, "Int",
                                              [line |-> 1, column |-> 1])]
    /\ UNCHANGED <<sourceCode, lexer, tokens, history, parserState, astRoot, analysis>>

EnterNamespace ==
    /\ analyzerState.symbolTable.currentNamespace < MaxNamespace
    /\ analyzerState' = [analyzerState EXCEPT !.symbolTable = enterNamespace(@)]
    /\ UNCHANGED <<sourceCode, lexer, tokens, history, parserState, astRoot, analysis>>

ExitNamespace ==
    /\ analyzerState' = [analyzerState EXCEPT !.symbolTable = exitNamespace(@)]
    /\ UNCHANGED <<sourceCode, lexer, tokens, history, parserState, astRoot, analysis>>

NextTable == AddSymbol \/ EnterNamespace \/ ExitNamespace

SpecTable == InitTable /\ [][NextTable]_vars

-----------------------------------------------------------------------------
(* The lexer driver on texts of whole lines: getNextToken is called until  *)
(* it returns the end-of-file token, as in Spec.                           *)

\* Lines, each with or without a comment behind it.
LineTexts == {"", "x", "x ", "1", "x = 1 "}
CommentTexts == {"", "//", "// c", "//x = 1"}

CommentedLines == {line \o comment : line \in LineTexts, comment \in CommentTexts}

\* One line, ended by a newline or by the end of the file, and two lines.
CommentedSources ==
    CommentedLines
    \cup {first \o "\n" \o second \o end :
              first \in CommentedLines, second \in CommentedLines, end \in {"", "\n"}}

\* String literals: an opening quote, up to three bytes, and a closing quote
\* or the end of the file, on their own and as the value of a declaration.
StringBytes == {"a", "\\", "\""}

RECURSIVE StringContents(_)
StringContents(length) ==
    IF length = 0 THEN {""}
    ELSE StringContents(length - 1)
         \cup {content \o byte : content \in StringContents(length - 1),
                                 byte \in StringBytes}

StringSources ==
    {before \o "\"" \o content \o after :
         before \in {"", "let s: String = "}, content \in StringContents(3),
         after \in {"", "\"", "\"\n", "\" x"}}

\* A `-` in front of a digit: behind an operand (with and without a blank
\* in between), and where an operand may begin.
SubtractionSources == {"a-1", "3 -1", "(a)-1", "a - 1", "3-1"}
SignSources == {"-1", "a - -1", "a = -1", "(-1)", "a * -1\n-1"}

LexerTexts == CommentedSources \cup StringSources \cup SubtractionSources \cup SignSources

InitTexts ==
    /\ sourceCode \in LexerTexts
    /\ LexerIdle
    /\ ParserIdle
    /\ AnalyzerIdle

SpecTexts == InitTexts /\ [][Next]_vars

-----------------------------------------------------------------------------
(* The lexer driver on texts with a lexeme about as long as the lexeme     *)
(* buffer.                                                                 *)

MaxOverrun == 1          \* the most bytes a lexeme is longer than its buffer

RECURSIVE Repeated(_, _)
Repeated(byte, count) ==
    IF count = 0 THEN ""
    ELSE IF count = 1 THEN byte
    ELSE Repeated(byte, count \div 2) \o Repeated(byte, count - (count \div 2))

\* An identifier, a numeric, a numeric with letters behind its first digit,
\* a run of operator characters and the content of a string literal.
LongLexemes(length) ==
    {Repeated("x", length), Repeated("1", length),
     "1" \o Repeated("x", length - 1), Repeated("+", length),
     "\"" \o Repeated("a", length) \o "\""}

LongSources ==
    {before \o lexeme \o after :
         before \in {"", "y "},
         lexeme \in UNION {LongLexemes(length) :
                               length \in LEXEME_LENGTH - 2 .. LEXEME_LENGTH + MaxOverrun},
         after \in {"", "\n"}}

InitLongTexts ==
    /\ sourceCode \in LongSources
    /\ LexerIdle
    /\ ParserIdle
    /\ AnalyzerIdle

SpecLongTexts == InitLongTexts /\ [][Next]_vars

-----------------------------------------------------------------------------
(* Properties of the lexer.                                                *)

Calls == 1 .. Len(tokens)

\* The byte the i-th call starts its token at, and the lexer right after it.
StartOf(i) == locateStartOfNextToken(history[i], sourceCode)

\* The first byte at or after the read offset that is not a blank.
RECURSIVE FirstSignificant(_, _)
FirstSignificant(text, offset) ==
    IF CharAt(text, offset) \in {" ", "\t", "\f", "\r"}
    THEN FirstSignificant(text, offset + 1)
    ELSE CharAt(text, offset)

\* C1: the two bytes `!=` (not followed by a further operator character) are
\* always returned as one not-equal token, whatever the previous token is;
\* they are never split into a Factorial and an Assign token.
C1_NotEqualIsOneToken ==
    \A i \in Calls :
        (/\ StartOf(i).ch = "!"
         /\ CharAt(sourceCode, StartOf(i).lx.offset) = "="
         /\ CharAt(sourceCode, StartOf(i).lx.offset + 1) \notin NATIVE_OPERATORS)
        => /\ tokens[i].tokenType = "TOKEN_NOT_EQUAL_TO_OPERATOR"
           /\ tokens[i].lexeme = "!="

\* C2: when the next significant byte of a call is a newline, the call
\* returns a Delimiter if and only if the round and the square bracket
\* counters are both zero; otherwise the newline is passed over and the token
\* begins after it. The curly counter plays no part.
C2_NewlineIsDelimiterOutsideClosure ==
    \A i \in Calls :
        FirstSignificant(sourceCode, history[i].offset) = "\n"
        => LET closed == /\ history[i].isInClosure[BRACKET_CLOSURE] = 0
                         /\ history[i].isInClosure[SQUARE_BRACKET_CLOSURE] = 0
           IN  /\ tokens[i].tokenType = "TOKEN_DELIMITER" <=> closed
               /\ closed => tokens[i].lexeme = "\n"
               /\ ~closed => StartOf(i).ch # "\n"

C2_Witness ==
    \E i \in Calls, j \in Calls :
        /\ FirstSignificant(sourceCode, history[i].offset) = "\n"
        /\ history[i].isInClosure[CURLY_BRACKET_CLOSURE] > 0
        /\ tokens[i].tokenType = "TOKEN_DELIMITER"
        /\ FirstSignificant(sourceCode, history[j].offset) = "\n"
        /\ history[j].isInClosure[BRACKET_CLOSURE] > 0
        /\ tokens[j].tokenType # "TOKEN_DELIMITER"

\* C3: a `!` that starts a token right after a Numeric or an Identifier token
\* is returned as a Factorial token (never as a logical negation).
C3_FactorialAfterOperand ==
    \A i \in Calls :
        (/\ StartOf(i).ch = "!"
         /\ history[i].previousTokenType \in {"TOKEN_NUMERIC", "TOKEN_IDENTIFIER"})
        => /\ tokens[i].tokenType = "TOKEN_ARITHMETIC_FACTORIAL"
           /\ tokens[i].lexeme = "!"

C3_Witness ==
    \E i \in Calls, j \in Calls :
        /\ i > 1 /\ j > 1
        /\ StartOf(i).ch = "!" /\ tokens[i - 1].tokenType = "TOKEN_NUMERIC"
        /\ tokens[i].tokenType = "TOKEN_ARITHMETIC_FACTORIAL"
        /\ StartOf(j).ch = "!" /\ tokens[j - 1].tokenType = "TOKEN_IDENTIFIER"
        /\ tokens[j].tokenType = "TOKEN_ARITHMETIC_FACTORIAL"

-----------------------------------------------------------------------------
(* Properties of the parser.                                               *)

\* The tokens of a source text, up to the end-of-file token.
RECURSIVE TokensFrom(_, _)
TokensFrom(lx, text) ==
    LET result == getNextToken(lx, text)
    IN  IF result.token.tokenType = "TOKEN_EOF" THEN <<>>
        ELSE <<result.token>> \o TokensFrom(result.lx, text)

TokensOf(text) == TokensFrom(initLexer, text)

OperandTypes ==
    {"TOKEN_IDENTIFIER", "TOKEN_NUMERIC", "TOKEN_STRING_LITERAL",
     "TOKEN_KEYWORD_TRUE", "TOKEN_KEYWORD_FALSE"}

\* The precedence tier of a binary operator token, 0 for any other token.
Tier(tokenType) ==
    CASE tokenType = "TOKEN_LOGICAL_OR_OPERATOR" -> 1
      [] tokenType = "TOKEN_LOGICAL_AND_OPERATOR" -> 2
      [] tokenType \in {"TOKEN_LESS_THAN_OPERATOR", "TOKEN_GREATER_THAN_OPERATOR",
                        "TOKEN_LESS_OR_EQUAL_TO_OPERATOR",
                        "TOKEN_GREATER_OR_EQUAL_TO_OPERATOR",
                        "TOKEN_LOGICAL_EQUIVALENCE",
                        "TOKEN_NOT_EQUAL_TO_OPERATOR"} -> 3
      [] tokenType \in {"TOKEN_ARITHMETIC_ADDITION",
                        "TOKEN_ARITHMETIC_SUBTRACTION"} -> 4
      [] tokenType \in {"TOKEN_ARITHMETIC_MULTIPLICATION",
                        "TOKEN_ARITHMETIC_DIVISION", "TOKEN_ARITHMETIC_MODULO"} -> 5
      [] OTHER -> 0

\* operand (operator operand)*
IsOperandOperatorSequence(ts) ==
    /\ Len(ts) % 2 = 1
    /\ \A k \in 1 .. Len(ts) :
           IF k % 2 = 1 THEN ts[k].tokenType \in OperandTypes
           ELSE Tier(ts[k].tokenType) > 0

LeafOf(token) ==
    [nodeType |-> CASE token.tokenType = "TOKEN_IDENTIFIER" -> "AST_IDENTIFIER"
                    [] token.tokenType \in {"TOKEN_KEYWORD_TRUE", "TOKEN_KEYWORD_FALSE"}
                           -> "AST_BOOLEAN_LITERAL"
                    [] OTHER -> "AST_LITERAL",
     token |-> token, left |-> NULL, right |-> NULL,
     inferredType |-> "Any", isFoldable |-> 1, nodeValue |-> NoValue]

\* The tree of ts[first .. last] under the precedence order, every tier
\* left-associative: the root is the last operator of the lowest tier.
RECURSIVE ExpectedTree(_, _, _)
ExpectedTree(ts, first, last) ==
    IF first = last THEN LeafOf(ts[first])
    ELSE LET operators == {k \in first + 1 .. last - 1 : (k - first) % 2 = 1}
             lowest == CHOOSE k \in operators :
                           \A other \in operators :
                               \/ Tier(ts[k].tokenType) < Tier(ts[other].tokenType)
                               \/ /\ Tier(ts[k].tokenType) = Tier(ts[other].tokenType)
                                  /\ k >= other
         IN  [nodeType |-> "AST_BINARY_EXPRESSION", token |-> ts[lowest],
              left |-> ExpectedTree(ts, first, lowest - 1),
              right |-> ExpectedTree(ts, lowest + 1, last),
              inferredType |-> "Any", isFoldable |-> 1, nodeValue |-> NoValue]

\* C4: for a token sequence of operands and binary operators, the parsed
\* expression is the tree of the precedence order `||` < `&&` < comparison <
\* additive < multiplicative with every tier left-associative.
C4_PrecedenceAndLeftAssociativity ==
    (astRoot # NULL /\ IsOperandOperatorSequence(TokensOf(sourceCode)))
    => /\ astRoot.nodeType = "AST_PROGRAM"
       /\ astRoot.left = ExpectedTree(TokensOf(sourceCode), 1,
                                      Len(TokensOf(sourceCode)))

C4_Witness ==
    /\ sourceCode = "a + a * a - a"
    /\ astRoot # NULL
    /\ IsOperandOperatorSequence(TokensOf(sourceCode))
    /\ astRoot.left.token.lexeme = "-"
    /\ astRoot.left.left.token.lexeme = "+"
    /\ astRoot.left.left.right.token.lexeme = "*"
    /\ astRoot.left.right.nodeType = "AST_IDENTIFIER"

\* The lines of a source text (the text between newlines), blank lines left out.
RECURSIVE SplitLines(_, _, _)
SplitLines(text, offset, line) ==
    IF offset > Len(text) THEN IF line = "" THEN <<>> ELSE <<line>>
    ELSE IF SubSeq(text, offset, offset) = "\n"
    THEN (IF line = "" THEN <<>> ELSE <<line>>) \o SplitLines(text, offset + 1, "")
    ELSE SplitLines(text, offset + 1, line \o SubSeq(text, offset, offset))

LinesOf(text) == SplitLines(text, 1, "")

EndsWithNewline(text) ==
    Len(text) > 0 /\ SubSeq(text, Len(text), Len(text)) = "\n"

\* A tree without the locations of its tokens.
RECURSIVE Shape(_)
Shape(node) ==
    IF node = NULL THEN "NULL"
    ELSE [nodeType |-> node.nodeType,
          lexeme |-> IF node.token = NULL_TOKEN THEN "NULL" ELSE node.token.lexeme,
          left |-> Shape(node.left), right |-> Shape(node.right)]

\* The statements along the right spine of a Program chain.
RECURSIVE SpineStatements(_)
SpineStatements(node) ==
    IF node = NULL THEN <<>>
    ELSE IF node.left = NULL /\ node.right = NULL THEN <<>>
    ELSE <<node.left>> \o SpineStatements(node.right)

RECURSIVE SpineEnd(_)
SpineEnd(node) == IF node.right = NULL THEN node ELSE SpineEnd(node.right)

Kinds(diagnostics) ==
    [k \in 1 .. Len(diagnostics) |->
        [parseError |-> diagnostics[k].parseError, lexeme |-> diagnostics[k].lexeme]]

\* A line that is one statement and parses without error when it stands alone.
WellFormed(line) ==
    LET alone == ParseOf(line \o "\n")
    IN  /\ alone.parser.diagnostics = <<>>
        /\ ~alone.parser.crashed
        /\ Len(SpineStatements(alone.node)) = 1

StatementOf(line) == Shape(ParseOf(line \o "\n").node.left)

\* C5: when every statement of the input parses without error, the Program
\* chain has, along its right spine, exactly the statements of the source in
\* their order, and ends in a Program node without children.
C5_ProgramChainHoldsEveryStatement ==
    LET lines == LinesOf(sourceCode)
        spine == SpineStatements(astRoot)
    IN  (/\ astRoot # NULL
         /\ EndsWithNewline(sourceCode)
         /\ \A k \in 1 .. Len(lines) : WellFormed(lines[k]))
        => /\ Len(spine) = Len(lines)
           /\ \A k \in 1 .. Len(lines) : Shape(spine[k]) = StatementOf(lines[k])
           /\ SpineEnd(astRoot).nodeType = "AST_PROGRAM"
           /\ SpineEnd(astRoot).left = NULL

\* C6: after a parse error in the first statement, every well-formed
\* statement that begins after the next Delimiter appears in the AST.
C6_StatementsAfterAnErrorAreParsed ==
    LET lines == LinesOf(sourceCode)
        spine == SpineStatements(astRoot)
    IN  (/\ astRoot # NULL
         /\ EndsWithNewline(sourceCode)
         /\ Len(lines) > 1
         /\ ParseOf(lines[1] \o "\n").parser.diagnostics # <<>>
         /\ \A k \in 2 .. Len(lines) : WellFormed(lines[k]) /\ lines[k] # "-y")
        => \A k \in 2 .. Len(lines) :
               \E j \in 1 .. Len(spine) : Shape(spine[j]) = StatementOf(lines[k])

\* C7: a source that ends without a newline parses to the same statements and
\* the same diagnostics as the same source with one newline appended.
C7_EndOfFileIsADelimiter ==
    (/\ astRoot # NULL
     /\ sourceCode # ""
     /\ ~EndsWithNewline(sourceCode))
    => /\ Shape(astRoot) = Shape(ParseOf(sourceCode \o "\n").node)
       /\ Kinds(parserState.diagnostics)
              = Kinds(ParseOf(sourceCode \o "\n").parser.diagnostics)

-----------------------------------------------------------------------------
(* Claims about the analyzer.  They are stated over the trace of the       *)
(* analysis.                                                               *)

AnalysisTrace == analyzerState.trace
Entries(events) ==
    {i \in 1..Len(AnalysisTrace) : AnalysisTrace[i].event \in events}
SymbolsOf(symbolTable) ==
    {symbolTable.headSymbol[k] : k \in 1..Len(symbolTable.headSymbol)}
AnalysisDone == analysis # NoAnalysis /\ ~analyzerState.crashed

\* The one diagnostic of a kind printed at a token.
ReportedAt(analyzerError, token) ==
    <<[analyzerError |-> analyzerError, lexeme |-> token.lexeme,
       location |-> token.location]>>

ExistsAtCurrentLevel(entry) ==
    \E symbol \in SymbolsOf(entry.symbolTable) :
        /\ symbol.identifier = entry.identifier
        /\ symbol.namespace = entry.symbolTable.currentNamespace

AddsAtCurrentLevel(entry) ==
    /\ entry.result = 1
    /\ entry.reported = <<>>
    /\ Len(entry.after.headSymbol) = Len(entry.symbolTable.headSymbol) + 1
    /\ Tail(entry.after.headSymbol) = entry.symbolTable.headSymbol
    /\ entry.after.headSymbol[1].identifier = entry.identifier
    /\ entry.after.headSymbol[1].namespace = entry.symbolTable.currentNamespace

\* C8: a declaration is rejected with re-declared-variable if and only if a
\* symbol of its identifier exists at exactly the current namespace level;
\* otherwise (also when the name exists in an enclosing namespace only) it
\* is accepted and adds a symbol at the current level.
C8_RedeclarationOnlyAtCurrentLevel ==
    \A i \in Entries({"declaration"}) :
        IF ExistsAtCurrentLevel(AnalysisTrace[i])
        THEN /\ AnalysisTrace[i].result = 0
             /\ AnalysisTrace[i].reported =
                    ReportedAt("ANALYZER_ERROR_REDECLARED_VARIABLE",
                               AnalysisTrace[i].target)
             /\ AnalysisTrace[i].after = AnalysisTrace[i].symbolTable
        ELSE AddsAtCurrentLevel(AnalysisTrace[i])

\* The identifiers declared in each block that is open after the first
\* `count` entries of the trace, the program itself first.
RECURSIVE OpenBlocks(_)
OpenBlocks(count) ==
    IF count = 0 THEN <<{}>>
    ELSE LET blocks == OpenBlocks(count - 1)
             entry == AnalysisTrace[count]
         IN  IF entry.event = "enter" THEN Append(blocks, {})
             ELSE IF entry.event = "exit" THEN SubSeq(blocks, 1, Len(blocks) - 1)
             ELSE IF entry.event = "declaration"
             THEN [blocks EXCEPT ![Len(blocks)] = @ \cup {entry.identifier}]
             ELSE blocks

DeclaredInOpenBlocks(count) ==
    UNION {OpenBlocks(count)[k] : k \in 1..Len(OpenBlocks(count))}

\* C9: at every point of the analysis an identifier resolves exactly when
\* it was declared in a block that is still open; an assignment to an
\* identifier declared in no open block is rejected as undeclared-variable,
\* and at the end of the program the table holds the declarations of the
\* program level only.
C9_ResolvesExactlyInOpenBlocks ==
    /\ \A i \in Entries({"declaration", "assignment", "reference"}) :
           /\ AnalysisTrace[i].symbol # 0
                  <=> AnalysisTrace[i].identifier \in DeclaredInOpenBlocks(i - 1)
           /\ {symbol.identifier : symbol \in SymbolsOf(AnalysisTrace[i].symbolTable)}
                  = DeclaredInOpenBlocks(i - 1)
    /\ \A i \in Entries({"assignment"}) :
           AnalysisTrace[i].identifier \notin DeclaredInOpenBlocks(i - 1)
               => /\ AnalysisTrace[i].result = 0
                  /\ AnalysisTrace[i].reported =
                         ReportedAt("ANALYZER_ERROR_UNDECLARED_VARIABLE",
                                    AnalysisTrace[i].target)
    /\ AnalysisDone
           => /\ Len(OpenBlocks(Len(AnalysisTrace))) = 1
              /\ analyzerState.symbolTable.currentNamespace = 0
              /\ {symbol.identifier : symbol \in SymbolsOf(analyzerState.symbolTable)}
                     = DeclaredInOpenBlocks(Len(AnalysisTrace))

\* A symbol declared in a block is looked for after the block is left and is
\* not found, and a symbol of the program level is assigned in a block.
C9_Witness ==
    /\ AnalysisDone
    /\ \E i \in Entries({"exit"}), j \in Entries({"assignment"}) :
           /\ i < j
           /\ AnalysisTrace[j].symbol = 0
           /\ \E symbol \in SymbolsOf(AnalysisTrace[i].symbolTable) :
                  /\ symbol.identifier = AnalysisTrace[j].identifier
                  /\ symbol.namespace = AnalysisTrace[i].symbolTable.currentNamespace
    /\ \E j \in Entries({"assignment"}) :
           /\ AnalysisTrace[j].symbolTable.currentNamespace > 0
           /\ AnalysisTrace[j].symbol # 0
           /\ AnalysisTrace[j].symbolTable.headSymbol[AnalysisTrace[j].symbol].namespace = 0
           /\ AnalysisTrace[j].result = 1

\* The declaration that has allocated the symbol of an address.
DeclarationOf(address) ==
    CHOOSE i \in Entries({"declaration"}) :
        /\ AnalysisTrace[i].result = 1
        /\ AnalysisTrace[i].after.headSymbol[1].address = address

DeclaredWithLet(address) ==
    AnalysisTrace[DeclarationOf(address)].nodeType = "AST_CONSTANT_DECLARATION"

\* The symbol an assignment has found, as it was before the assignment.
TargetOf(entry) == entry.symbolTable.headSymbol[entry.symbol]

ResolvedAssignments == {i \in Entries({"assignment"}) : AnalysisTrace[i].symbol # 0}

\* C10: of the assignments to a symbol declared with let at most one
\* succeeds; an assignment to such a symbol that is initialized is rejected
\* with immutable-modification at the assigned identifier, returns 0 and
\* leaves the table as it is; no assignment to a symbol declared with var
\* reports immutable-modification.
C10_ConstantIsAssignedAtMostOnce ==
    /\ \A i \in ResolvedAssignments :
           IF DeclaredWithLet(TargetOf(AnalysisTrace[i]).address)
           THEN TargetOf(AnalysisTrace[i]).hasInitialized # 0
                    => /\ AnalysisTrace[i].result = 0
                       /\ AnalysisTrace[i].target.tokenType = "TOKEN_IDENTIFIER"
                       /\ AnalysisTrace[i].target.lexeme = AnalysisTrace[i].identifier
                       /\ AnalysisTrace[i].reported =
                              ReportedAt("ANALYZER_ERROR_IMMUTABLE_MODIFICATION",
                                         AnalysisTrace[i].target)
                       /\ AnalysisTrace[i].after = AnalysisTrace[i].symbolTable
           ELSE \A k \in 1..Len(AnalysisTrace[i].reported) :
                    AnalysisTrace[i].reported[k].analyzerError
                        # "ANALYZER_ERROR_IMMUTABLE_MODIFICATION"
    /\ \A i, j \in ResolvedAssignments :
           (/\ i < j
            /\ TargetOf(AnalysisTrace[i]).address = TargetOf(AnalysisTrace[j]).address
            /\ DeclaredWithLet(TargetOf(AnalysisTrace[i]).address)
            /\ AnalysisTrace[i].result = 1)
               => AnalysisTrace[j].result = 0

\* A constant is assigned with success and then again, and a variable is
\* assigned with success twice.
C10_Witness ==
    /\ AnalysisDone
    /\ \E i, j \in ResolvedAssignments :
           /\ i < j
           /\ TargetOf(AnalysisTrace[i]).address = TargetOf(AnalysisTrace[j]).address
           /\ DeclaredWithLet(TargetOf(AnalysisTrace[i]).address)
           /\ AnalysisTrace[i].result = 1
           /\ AnalysisTrace[j].reported =
                  ReportedAt("ANALYZER_ERROR_IMMUTABLE_MODIFICATION",
                             AnalysisTrace[j].target)
    /\ \E i, j \in ResolvedAssignments :
           /\ i < j
           /\ TargetOf(AnalysisTrace[i]).address = TargetOf(AnalysisTrace[j]).address
           /\ ~DeclaredWithLet(TargetOf(AnalysisTrace[i]).address)
           /\ AnalysisTrace[i].result = 1
           /\ AnalysisTrace[j].result = 1

\* The assignments that get as far as the type check of analyzer.c 103: the
\* symbol is found, it is no initialized constant, and the analysis of the
\* right-hand side has returned.
TypeChecked ==
    {i \in ResolvedAssignments :
         /\ ~AnalysisTrace[i].crashed
         /\ \/ TargetOf(AnalysisTrace[i]).isMutable # 0
            \/ TargetOf(AnalysisTrace[i]).hasInitialized = 0}

Mismatched(entry) == entry.analyzed.right.inferredType # TargetOf(entry).type

WithInitializer(entry) ==
    entry.analyzed.left.nodeType
        \in {"AST_VARIABLE_DECLARATION", "AST_CONSTANT_DECLARATION"}

\* C11: an assignment whose right-hand side has another inferred type than
\* the declared type of the symbol reports operation-type-mismatch at the
\* assignment, returns 0 and leaves the symbol table as it was (the symbol
\* is not marked initialized and no value is stored); the symbol of a
\* declaration with such an initializer is declared and not initialized.
C11_TypeMismatchLeavesSymbolUninitialized ==
    \A i \in TypeChecked :
        Mismatched(AnalysisTrace[i])
            => /\ AnalysisTrace[i].result = 0
               /\ Len(AnalysisTrace[i].reported) > 0
               /\ <<AnalysisTrace[i].reported[Len(AnalysisTrace[i].reported)]>> =
                      ReportedAt("ANALYZER_ERROR_OPERATION_TYPE_MISSMATCH",
                                 AnalysisTrace[i].analyzed.token)
               /\ AnalysisTrace[i].analyzed.token.tokenType = "TOKEN_ASSIGNMENT_OPERATOR"
               /\ AnalysisTrace[i].after = AnalysisTrace[i].symbolTable
               /\ WithInitializer(AnalysisTrace[i])
                      => /\ AnalysisTrace[i].after.headSymbol[1].identifier =
                                AnalysisTrace[i].identifier
                         /\ AnalysisTrace[i].after.headSymbol[1].hasInitialized = 0

\* A declaration whose initializer has another type than the declared one
\* is analyzed, and the symbol is assigned a value of its type afterwards.
C11_Witness ==
    /\ AnalysisDone
    /\ \E i, j \in TypeChecked :
           /\ i < j
           /\ WithInitializer(AnalysisTrace[i])
           /\ Mismatched(AnalysisTrace[i])
           /\ TargetOf(AnalysisTrace[i]).type = "Int"
           /\ AnalysisTrace[i].analyzed.right.inferredType = "Float"
           /\ TargetOf(AnalysisTrace[j]).address = TargetOf(AnalysisTrace[i]).address
           /\ TargetOf(AnalysisTrace[j]).hasInitialized = 0
           /\ AnalysisTrace[j].result = 1

\* The nodes of an expression.
RECURSIVE ExpressionNodes(_)
ExpressionNodes(node) ==
    IF node = NULL THEN {}
    ELSE {node} \cup ExpressionNodes(node.left) \cup ExpressionNodes(node.right)

\* The expressions analyzeExpression has returned 1 for, as it has left
\* them: right-hand sides of assignments and conditions.
AcceptedExpressions ==
    {AnalysisTrace[i].analyzed :
         i \in {j \in Entries({"expression"}) : AnalysisTrace[j].result # 0}}
    \cup {AnalysisTrace[i].analyzed.left :
              i \in {j \in Entries({"condition"}) : AnalysisTrace[j].result # 0}}

AcceptedNodes == UNION {ExpressionNodes(root) : root \in AcceptedExpressions}

IsBinary(node, operators) ==
    node.nodeType = "AST_BINARY_EXPRESSION" /\ node.token.tokenType \in operators

BOOLEAN_TOKENS == LOGICAL_TOKENS \cup EQUALITY_TOKENS \cup RELATIONAL_TOKENS

\* C12: every binary expression with a logical, an equality or a relational
\* operator that the analyzer accepts has the inferred type Bool, whether
\* its operands fold or not.
C12_ComparisonsAndLogicalExpressionsAreBool ==
    \A node \in AcceptedNodes :
        IsBinary(node, BOOLEAN_TOKENS) => node.inferredType = "Bool"

\* The expressions analyzeExpression was called for, as it has left them.
AnalyzedExpressions ==
    {AnalysisTrace[i].analyzed : i \in Entries({"expression"})}
    \cup {AnalysisTrace[i].analyzed.left : i \in Entries({"condition"})}

IsFactorial(node) ==
    /\ node.nodeType \in {"AST_POSTFIX_EXPRESSION", "AST_UNARY_EXPRESSION"}
    /\ node.token.tokenType = "TOKEN_ARITHMETIC_FACTORIAL"

IsIntLiteral(node) ==
    /\ node.nodeType = "AST_LITERAL"
    /\ node.token.tokenType = "TOKEN_NUMERIC"
    /\ ~hasPoint(node.token.lexeme)

RECURSIVE Factorial(_)
Factorial(number) == IF number <= 1 THEN 1 ELSE number * Factorial(number - 1)

\* C13: a factorial node the parser has built is accepted only with an
\* operand of type Int, is given the type Int, and with an Int literal n as
\* its operand holds n! as its folded value.
C13_PostfixFactorialIsIntAndFolds ==
    /\ \A node \in AcceptedNodes :
           IsFactorial(node)
               => /\ node.left.inferredType = "Int"
                  /\ node.inferredType = "Int"
                  /\ IsIntLiteral(node.left)
                         => /\ node.isFoldable # 0
                            /\ node.nodeValue.integerValue =
                                   Stored(Factorial(atoi(node.left.token.lexeme).value))
    /\ \A i \in TypeChecked :
           (/\ IsFactorial(AnalysisTrace[i].analyzed.right)
            /\ IsIntLiteral(AnalysisTrace[i].analyzed.right.left)
            /\ TargetOf(AnalysisTrace[i]).type = "Int")
               => AnalysisTrace[i].result = 1

\* The conditional statements whose condition has folded to a value.
FoldedConditions ==
    {i \in Entries({"condition"}) :
         /\ AnalysisTrace[i].result # 0
         /\ AnalysisTrace[i].analyzed.left.inferredType = "Bool"
         /\ AnalysisTrace[i].analyzed.left.isFoldable # 0
         /\ AnalysisTrace[i].analyzed.left.nodeValue.booleanValue.defined}

ConditionValue(entry) == entry.analyzed.left.nodeValue.booleanValue.value

\* The branch the value of the condition selects, and the other one.
SelectedBranch(entry) ==
    IF ConditionValue(entry) # 0 THEN entry.analyzed.right.left
    ELSE entry.analyzed.right.right

DeadBranch(entry) ==
    IF ConditionValue(entry) # 0 THEN entry.analyzed.right.right
    ELSE entry.analyzed.right.left

\* The identifier tokens of the declarations and of the assignments to an
\* identifier under a node: a token holds its place in the source text.
StatementTokens(node) ==
    {statement.left.token :
         statement \in {n \in ExpressionNodes(node) :
                            \/ n.nodeType \in {"AST_VARIABLE_DECLARATION",
                                               "AST_CONSTANT_DECLARATION"}
                            \/ /\ n.nodeType = "AST_ASSIGNMENT_STATEMENT"
                               /\ n.left.nodeType = "AST_IDENTIFIER"}}

\* The tokens of the statements the analyzer has analyzed.
AnalyzedStatementTokens ==
    {AnalysisTrace[j].target : j \in Entries({"declaration", "assignment"})}

\* C14: of a conditional statement whose condition has folded, no statement
\* of the branch the value does not select is analyzed, and the statements
\* of a selected block are.
C14_DeadBranchIsNotAnalyzed ==
    \A i \in FoldedConditions :
        /\ StatementTokens(DeadBranch(AnalysisTrace[i])) \cap AnalyzedStatementTokens = {}
        /\ AnalysisDone /\ SelectedBranch(AnalysisTrace[i]) # NULL
               /\ SelectedBranch(AnalysisTrace[i]).nodeType = "AST_CODE_BLOCK"
               => StatementTokens(SelectedBranch(AnalysisTrace[i]))
                      \subseteq AnalyzedStatementTokens

\* The tokens of an expression in the order of the source text.
RECURSIVE InOrder(_)
InOrder(node) ==
    IF node = NULL THEN <<>>
    ELSE InOrder(node.left) \o <<node.token>> \o InOrder(node.right)

\* Int literals joined by arithmetic operators.
IsIntArithmetic(ts) ==
    /\ Len(ts) % 2 = 1
    /\ \A k \in 1..Len(ts) :
           IF k % 2 = 1
           THEN ts[k].tokenType = "TOKEN_NUMERIC" /\ ~hasPoint(ts[k].lexeme)
           ELSE ts[k].tokenType \in ARITHMETIC_TOKENS

Absolute(value) == IF value < 0 THEN -value ELSE value

\* The quotient cut towards zero; the divisor is not zero.
TruncatedQuotient(dividend, divisor) ==
    IF (dividend < 0) = (divisor < 0)
    THEN Absolute(dividend) \div Absolute(divisor)
    ELSE -(Absolute(dividend) \div Absolute(divisor))

\* The result of an operator on two ints as a set: empty when the divisor
\* is zero or the result is outside of the int range.
Applied(tokenType, lhs, rhs) ==
    CASE tokenType = "TOKEN_ARITHMETIC_ADDITION" ->
             IF (rhs > 0 /\ lhs > IntMax - rhs) \/ (rhs < 0 /\ lhs < IntMin - rhs)
             THEN {} ELSE {lhs + rhs}
      [] tokenType = "TOKEN_ARITHMETIC_SUBTRACTION" ->
             IF (rhs < 0 /\ lhs > IntMax + rhs) \/ (rhs > 0 /\ lhs < IntMin + rhs)
             THEN {} ELSE {lhs - rhs}
      [] tokenType = "TOKEN_ARITHMETIC_MULTIPLICATION" ->
             IF lhs = 0 \/ rhs = 0 THEN {0}
             ELSE IF lhs = IntMin \/ rhs = IntMin
                     \/ Absolute(lhs) > IntMax \div Absolute(rhs)
             THEN {} ELSE {lhs * rhs}
      [] tokenType = "TOKEN_ARITHMETIC_DIVISION" ->
             IF rhs = 0 \/ lhs = IntMin THEN {}
             ELSE {TruncatedQuotient(lhs, rhs)}
      [] tokenType = "TOKEN_ARITHMETIC_MODULO" ->
             IF rhs = 0 \/ lhs = IntMin THEN {}
             ELSE {lhs - rhs * TruncatedQuotient(lhs, rhs)}

\* The value of ts[first .. last] under the precedence order, every tier
\* from left to right, as a set: empty when a step has no result.
RECURSIVE ExpectedValue(_, _, _)
ExpectedValue(ts, first, last) ==
    IF first = last
    THEN IF atoi(ts[first].lexeme).defined THEN {atoi(ts[first].lexeme).value} ELSE {}
    ELSE LET operators == {k \in first + 1 .. last - 1 : (k - first) % 2 = 1}
             lowest == CHOOSE k \in operators :
                           \A other \in operators :
                               \/ Tier(ts[k].tokenType) < Tier(ts[other].tokenType)
                               \/ /\ Tier(ts[k].tokenType) = Tier(ts[other].tokenType)
                                  /\ k >= other
         IN  UNION {Applied(ts[lowest].tokenType, lhs, rhs) :
                        lhs \in ExpectedValue(ts, first, lowest - 1),
                        rhs \in ExpectedValue(ts, lowest + 1, last)}

ValuesOf(node) == ExpectedValue(InOrder(node), 1, Len(InOrder(node)))

AnalyzedNodes == UNION {ExpressionNodes(root) : root \in AnalyzedExpressions}

NumericTypes == {"Int", "Float"}

\* The arithmetic expressions whose operands the analyzer has given a
\* numeric type.
NumericArithmetic ==
    {node \in AnalyzedNodes :
         /\ IsBinary(node, ARITHMETIC_TOKENS)
         /\ node.left.inferredType \in NumericTypes
         /\ node.right.inferredType \in NumericTypes}

\* C16: an arithmetic expression with two numeric operands has the type
\* Float if an operand has the type Float and the type Int otherwise; two
\* such expressions of one operator with the operand types swapped have the
\* same type.
C16_ArithmeticTypeIsFloatIfAnOperandIs ==
    /\ \A node \in NumericArithmetic :
           node.inferredType =
               IF "Float" \in {node.left.inferredType, node.right.inferredType}
               THEN "Float" ELSE "Int"
    /\ \A one, other \in NumericArithmetic :
           (/\ one.token.tokenType = other.token.tokenType
            /\ one.left.inferredType = other.right.inferredType
            /\ one.right.inferredType = other.left.inferredType)
               => one.inferredType = other.inferredType

\* An Int divided by a Float and a Float divided by an Int are analyzed,
\* with operands that do not fold.
C16_Witness ==
    /\ AnalysisDone
    /\ \E one, other \in NumericArithmetic :
           /\ one.token.tokenType = other.token.tokenType
           /\ one.left.inferredType = "Int" /\ one.right.inferredType = "Float"
           /\ other.left.inferredType = "Float" /\ other.right.inferredType = "Int"
           /\ one.left.isFoldable = 0
           /\ one.inferredType = "Float" /\ other.inferredType = "Float"
    /\ \E node \in NumericArithmetic : node.inferredType = "Int"

\* The assignments whose right-hand side is an integer quotient or remainder
\* of two literals with the divisor 0.
DivisionsByZero ==
    {i \in Entries({"assignment"}) :
         /\ IsBinary(AnalysisTrace[i].analyzed.right,
                     {"TOKEN_ARITHMETIC_DIVISION", "TOKEN_ARITHMETIC_MODULO"})
         /\ IsIntLiteral(AnalysisTrace[i].analyzed.right.left)
         /\ IsIntLiteral(AnalysisTrace[i].analyzed.right.right)
         /\ atoi(AnalysisTrace[i].analyzed.right.right.token.lexeme) = Stored(0)}

\* C17: an integer / or % of foldable operands whose divisor is 0 is not
\* evaluated: the node is left with no value, nothing is reported, and the
\* analysis goes on with the statements that follow.
C17_DivisionByZeroIsLeftUnfolded ==
    \A i \in DivisionsByZero :
        /\ ~AnalysisTrace[i].crashed
        /\ AnalysisTrace[i].reported = <<>>
        /\ ~AnalysisTrace[i].analyzed.right.nodeValue.integerValue.defined

\* C18: after any number of getNextToken calls on any source text, each of
\* the three counters of the closure vector (round, curly and square
\* brackets) is at least 0.
C18_ClosureCountersAreNotNegative ==
    \A closure \in {BRACKET_CLOSURE, CURLY_BRACKET_CLOSURE, SQUARE_BRACKET_CLOSURE} :
        lexer.isInClosure[closure] >= 0

\* The lexer errors of the closures whose counter is not 0.
UnclosedErrors(lx) ==
    {"ERROR_UNCLOSED_BRACKET" : unused \in {0} \ {lx.isInClosure[BRACKET_CLOSURE]}}
    \cup {"ERROR_UNCLOSED_CURLY_BRACKET" :
              unused \in {0} \ {lx.isInClosure[CURLY_BRACKET_CLOSURE]}}
    \cup {"ERROR_UNCLOSED_SQUARE_BRACKET" :
              unused \in {0} \ {lx.isInClosure[SQUARE_BRACKET_CLOSURE]}}

\* The one error the switch of reportLexerError prints the message of.
ReportedLexerErrors(lx) ==
    {lx.lexerError} \ {"ERROR_LEXER_NONE"}

\* C19: when getNextToken has returned the end-of-file token, the unclosed
\* error of every closure whose counter is not 0 has been reported, each of
\* them when two closures or more are unbalanced.
C19_EveryUnclosedClosureIsReported ==
    (tokens # <<>> /\ tokens[Len(tokens)].tokenType = "TOKEN_EOF")
        => UnclosedErrors(lexer) \subseteq ReportedLexerErrors(lexer)

TableOnItsOwn == analyzerState.symbolTable

\* C20: after any sequence of addSymbol, enterNamespace and exitNamespace
\* calls on the table of initSymbolTable, currentNamespace is at least 0 and
\* the namespace of every symbol of the table is at least 0 and at most
\* currentNamespace.
C20_SymbolsAreWithinTheCurrentNamespace ==
    /\ TableOnItsOwn.currentNamespace >= 0
    /\ \A symbol \in SymbolsOf(TableOnItsOwn) :
           symbol.namespace \in 0..TableOnItsOwn.currentNamespace

\* exitNamespace has removed symbols, and the table, in namespace 1, holds a
\* symbol of the global namespace and a symbol of namespace 1.
C20_Witness ==
    /\ TableOnItsOwn.currentNamespace = 1
    /\ TableOnItsOwn.allocated > Len(TableOnItsOwn.headSymbol)
    /\ \E global, inner \in SymbolsOf(TableOnItsOwn) :
           global.namespace = 0 /\ inner.namespace = 1

-----------------------------------------------------------------------------
(* Properties of the lexer on texts of whole lines.                        *)

\* getNextToken has returned the end-of-file token.
EndOfFileReached == tokens # <<>> /\ tokens[Len(tokens)].tokenType = "TOKEN_EOF"

\* The kind and the lexeme of each token, in order.
KindsAndLexemes(ts) ==
    [i \in 1 .. Len(ts) |-> [tokenType |-> ts[i].tokenType, lexeme |-> ts[i].lexeme]]

\* A text with the text of each comment deleted: the bytes from `//` up to
\* the newline that ends the line, the newline itself is kept.
RECURSIVE WithoutComments(_, _, _)
WithoutComments(text, offset, inComment) ==
    IF offset > Len(text) THEN ""
    ELSE IF CharAt(text, offset) = "\n"
    THEN "\n" \o WithoutComments(text, offset + 1, FALSE)
    ELSE IF inComment \/ (CharAt(text, offset) = "/" /\ CharAt(text, offset + 1) = "/")
    THEN WithoutComments(text, offset + 1, TRUE)
    ELSE CharAt(text, offset) \o WithoutComments(text, offset + 1, FALSE)

\* C21: a `//` comment ends before the newline of its line: the tokens of a
\* text (kinds and lexemes, up to the end-of-file token) are those of the
\* text with its comments deleted and the newlines kept, so the statement
\* in front of a comment is still followed by a Delimiter.
C21_CommentEndsBeforeItsNewline ==
    EndOfFileReached
        => KindsAndLexemes(SubSeq(tokens, 1, Len(tokens) - 1))
               = KindsAndLexemes(TokensOf(WithoutComments(sourceCode, 1, FALSE)))

\* The offset of the first double quote at or after an offset that no
\* backslash escapes, 0 when the text has none.
RECURSIVE ClosingQuote(_, _)
ClosingQuote(text, offset) ==
    IF offset > Len(text) THEN 0
    ELSE IF CharAt(text, offset) = "\\" THEN ClosingQuote(text, offset + 2)
    ELSE IF CharAt(text, offset) = "\"" THEN offset
    ELSE ClosingQuote(text, offset + 1)

\* C22: in a string literal a backslash escapes the byte after it: both
\* bytes are in the lexeme and the escaped byte does not end the literal, so
\* the literal ends at the next double quote that is not escaped, and is
\* unterminated when there is none.
C22_BackslashEscapesTheNextByte ==
    \A i \in Calls :
        StartOf(i).ch = "\""
        => LET first == StartOf(i).lx.offset
               closing == ClosingQuote(sourceCode, first)
           IN  IF closing = 0
               THEN tokens[i].tokenError = "ERROR_UNTERMINATED_STRING"
               ELSE /\ tokens[i].tokenType = "TOKEN_STRING_LITERAL"
                    /\ tokens[i].lexeme = SubSeq(sourceCode, first, closing - 1)

\* The offsets of the newlines in front of an offset of a text.
NewlinesBefore(text, offset) ==
    {newline \in 1 .. offset - 1 : CharAt(text, newline) = "\n"}

\* The line and the column of the byte at an offset, both counted from 1.
LocationOf(text, offset) ==
    [line |-> 1 + Cardinality(NewlinesBefore(text, offset)),
     column |-> offset - (CHOOSE last \in NewlinesBefore(text, offset) \cup {0} :
                              \A newline \in NewlinesBefore(text, offset) :
                                  newline <= last)]

\* C23: every token holds the line and the column, counted from 1, of the
\* first byte of its lexeme in the text: an identifier `x` that starts the
\* file is at line 1, column 1, and a Delimiter is on the line that its
\* newline ends.  (The end-of-file token has no byte in the text, and the
\* lexeme of a string literal starts after the byte the token starts at.)
C23_TokenIsLocatedAtItsFirstByte ==
    \A i \in Calls :
        StartOf(i).ch \notin {EOF, "\""}
        => tokens[i].location = LocationOf(sourceCode, StartOf(i).lx.offset - 1)

\* The tokens an operand ends with.
OperandEnds == {"TOKEN_NUMERIC", "TOKEN_IDENTIFIER", "TOKEN_CLOSING_BRACKET"}

\* C28: a `-` with a digit right behind it is the sign of a numeric literal
\* only where an operand may begin; after a Numeric, an Identifier or a
\* closing bracket it is the subtraction operator, so that `a-1` and `3 -1`
\* are an operand, a Subtraction and a Numeric, and parse to a binary
\* subtraction.
C28_MinusAfterAnOperandIsSubtraction ==
    /\ \A i \in Calls :
           (StartOf(i).ch = "-" /\ isdigit(peekNextCharacter(StartOf(i).lx, sourceCode)))
           => IF history[i].previousTokenType \in OperandEnds
              THEN /\ tokens[i].tokenType = "TOKEN_ARITHMETIC_SUBTRACTION"
                   /\ tokens[i].lexeme = "-"
              ELSE /\ tokens[i].tokenType = "TOKEN_NUMERIC"
                   /\ SubSeq(tokens[i].lexeme, 1, 1) = "-"
    /\ (EndOfFileReached /\ sourceCode \in SubtractionSources)
           => LET statement == Shape(ParseOf(sourceCode \o "\n").node).left
              IN  /\ statement.nodeType = "AST_BINARY_EXPRESSION"
                  /\ statement.lexeme = "-"

\* C29: every lexeme fits the lexeme buffer: no call of getNextToken writes
\* at the index LEXEME_LENGTH of the buffer or behind it, and the lexeme of
\* every token returned has LEXEME_LENGTH - 1 bytes at most, whether it is
\* an identifier, a run of operator characters, a numeric or a string
\* literal, of LEXEME_LENGTH bytes or more in the text.
C29_LexemeFitsTheBuffer ==
    /\ ~lexer.crashed
    /\ \A i \in Calls : Len(tokens[i].lexeme) <= LEXEME_LENGTH - 1

\* The operands of a node with an operator.
OperandsOf(node) ==
    IF node.nodeType \in {"AST_BINARY_EXPRESSION", "AST_UNARY_EXPRESSION",
                          "AST_POSTFIX_EXPRESSION"}
    THEN {node.left, node.right} \ {NULL}
    ELSE {}

\* The member of symbolValue a symbol of a type holds its value in.
StoredValue(symbol) ==
    CASE symbol.type = "Int" -> symbol.symbolValue.integerValue
      [] symbol.type = "Float" -> symbol.symbolValue.floatingValue
      [] symbol.type = "Bool" -> symbol.symbolValue.booleanValue
      [] symbol.type = "String" -> symbol.symbolValue.stringLiteral
      [] OTHER -> Indeterminate

\* The references analyzeExpression leaves foldable: those to a symbol that
\* has been initialized (analyzer.c 198-223).
FoldableReferences ==
    {i \in Entries({"reference"}) :
         /\ AnalysisTrace[i].symbol # 0
         /\ TargetOf(AnalysisTrace[i]).hasInitialized # 0}

\* The conditional statements whose condition is accepted and has a node
\* that does not fold, and whose branches are blocks with no conditional
\* statement in them.
UnfoldableConditions ==
    {i \in Entries({"condition"}) :
         /\ AnalysisTrace[i].result # 0
         /\ AnalysisTrace[i].analyzed.left.inferredType = "Bool"
         /\ \E node \in ExpressionNodes(AnalysisTrace[i].analyzed.left) :
                node.isFoldable = 0
         /\ \A node \in ExpressionNodes(AnalysisTrace[i].analyzed.right) :
                node.nodeType # "AST_CONDITIONAL_STATEMENT"}

\* C24: a node with operands of an accepted expression that is marked
\* foldable has only operands that are marked foldable; an identifier is
\* left foldable only when a value was stored in its symbol, which is done
\* from a right-hand side that was folded; and when the analysis succeeds,
\* the statements of both branches of a conditional statement whose
\* condition has a node that does not fold are analyzed.
C24_FoldableNodeHoldsAConstant ==
    /\ \A node \in AcceptedNodes :
           node.isFoldable # 0
               => \A operand \in OperandsOf(node) : operand.isFoldable # 0
    /\ \A i \in FoldableReferences : StoredValue(TargetOf(AnalysisTrace[i])).defined
    /\ AnalysisDone /\ analysis.result # 0
           => \A i \in UnfoldableConditions :
                  StatementTokens(AnalysisTrace[i].analyzed.right)
                      \subseteq AnalyzedStatementTokens

\* The conditional statements whose condition is accepted and does not
\* eliminate what follows their `else`, an `else if` clause.
ElseIfClauses ==
    {i \in Entries({"condition"}) :
         /\ AnalysisTrace[i].result # 0
         /\ AnalysisTrace[i].analyzed.left.inferredType = "Bool"
         /\ \/ AnalysisTrace[i].analyzed.left.isFoldable = 0
            \/ i \in FoldedConditions /\ ConditionValue(AnalysisTrace[i]) = 0
         /\ AnalysisTrace[i].analyzed.right.right # NULL
         /\ AnalysisTrace[i].analyzed.right.right.nodeType = "AST_CONDITIONAL_STATEMENT"}

ElseIf(entry) == entry.analyzed.right.right

\* C25: when the analysis has run to its end, the `else if` clause of a
\* conditional statement that does not eliminate it is analyzed as a
\* conditional statement: its condition is analyzed after that of the
\* statement, a condition whose type is not Bool is reported as an invalid
\* condition at the clause, and with a condition that is accepted and does
\* not fold the statements of its block are analyzed.
C25_ElseIfIsAnalyzedLikeAnIf ==
    AnalysisDone
        => \A i \in ElseIfClauses :
               \E j \in Entries({"condition"}) :
                   /\ j > i
                   /\ AnalysisTrace[j].analyzed.token = ElseIf(AnalysisTrace[i]).token
                   /\ AnalysisTrace[j].result = 0
                          \/ AnalysisTrace[j].analyzed.left.inferredType # "Bool"
                      => \E k \in 1..Len(analyzerState.diagnostics) :
                             /\ analyzerState.diagnostics[k].analyzerError
                                    \in {"ANALYZER_ERROR_INVALID_CONDITION"}
                             /\ analyzerState.diagnostics[k].location
                                    = ElseIf(AnalysisTrace[i]).token.location
                   /\ j \in UnfoldableConditions /\ analysis.result # 0
                      => StatementTokens(AnalysisTrace[j].analyzed.right.left)
                             \subseteq AnalyzedStatementTokens

\* C26: reportParseError is never called with a NULL diagnosticToken, and
\* every diagnostic it has printed has a line and a column.
C26_DiagnosticTokenIsNeverNull ==
    /\ ~parserState.crashed
    /\ \A k \in 1..Len(parserState.diagnostics) :
           /\ parserState.diagnostics[k].location.line >= 1
           /\ parserState.diagnostics[k].location.column >= 1

\* C27: every token the parser has consumed without a look at it, taking it
\* for a closing bracket, is the closing bracket it was taken for.
C27_UncheckedTokenIsTheClosingBracket ==
    \A k \in 1..Len(parserState.unchecked) :
        parserState.unchecked[k].token.tokenType = parserState.unchecked[k].closing

\* The guards of the two steps of the parser's run.
StartParserEnabled == parserState.currentToken = NULL_TOKEN
ParseProgramEnabled ==
    /\ parserState.currentToken # NULL_TOKEN
    /\ astRoot = NULL
    /\ ~parserState.crashed

\* C30: parseProgram returns on every source text: in every state of the
\* parser's run either the root has been returned or a step of the run can
\* be taken.
C30_ParseProgramTerminates ==
    astRoot # NULL \/ StartParserEnabled \/ ParseProgramEnabled

=============================================================================
